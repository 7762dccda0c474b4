----------------------------- MODULE BlockStorage -----------------------------
(***************************************************************************)
(* The PropertySetStorage of a forest built with LHF_ENABLE_PARALLEL        *)
(* (workdir/lhf/src/include/lhf/lhf.hpp 1319-1383): blocks of BLOCK_SIZE    *)
(* elements, reserved when they are added, so that an element never moves.  *)
(* push_back holds `mutex`, and `realloc_mutex` while it adds a block; at   *)
(* holds `realloc_mutex` shared, and so runs while an element is appended   *)
(* to the last block.                                                       *)
(***************************************************************************)
EXTENDS Integers, Sequences

CONSTANTS Thread,       \* the threads that share the storage
          MaxCalls,     \* how many calls a thread makes
          BLOCK_SIZE,   \* elements in a block, and BLOCK_MASK + 1
          BLOCK_SHIFT,  \* the shift from an index to its block: 5 in the code
          Nobody        \* the owner of a free lock

ASSUME BlockAssumption ==
  /\ MaxCalls \in Nat
  /\ BLOCK_SIZE \in Nat \ {0}
  /\ BLOCK_SHIFT \in Nat
  /\ Nobody \notin Thread

VARIABLES data,           \* the blocks
          total_elems, block_base,
          mutex,          \* the thread that holds it
          writer, readers,  \* the threads that hold realloc_mutex
          pc, local, calls  \* where each thread is, and its variables

shared == <<data, total_elems, block_base>>
locks  == <<mutex, writer, readers>>
vars   == <<shared, locks, pc, local, calls>>

back == data[Len(data)]

NoAnswer == <<>>

Pushed(i) == <<"push_back", i>>

Fetched(i, e) == <<"at", i, e>>

Goto(t, label) == pc' = [pc EXCEPT ![t] = label]

(* What push_back appends: pointers that no other call pushes.              *)
Holder == Thread \X (1 .. MaxCalls)

Begin(t, label) ==
  /\ pc[t] = "idle" /\ calls[t] < MaxCalls
  /\ Goto(t, label)
  /\ calls' = [calls EXCEPT ![t] = @ + 1]
  /\ UNCHANGED <<shared, locks>>

-----------------------------------------------------------------------------
(* push_back *)

push_back(t) ==
  /\ Begin(t, "lock")
  /\ local' = [local EXCEPT ![t].elem = <<t, calls[t] + 1>>]

(* Fault: pushing threads do not exclude each other.                        *)
lock_unguarded(t) ==
  /\ pc[t] = "lock"
  /\ Goto(t, "check")
  /\ UNCHANGED <<shared, locks, local, calls>>

lock(t) ==
  /\ pc[t] = "lock" /\ mutex = Nobody
  /\ mutex' = t
  /\ Goto(t, "check")
  /\ UNCHANGED <<shared, writer, readers, local, calls>>

(* Fault: a block is one element longer than was reserved.                  *)
check_late(t) ==
  /\ pc[t] = "check"
  /\ Goto(t, IF Len(back) > BLOCK_SIZE THEN "lock_realloc" ELSE "append")
  /\ UNCHANGED <<shared, locks, local, calls>>

check(t) ==
  /\ pc[t] = "check"
  /\ Goto(t, IF Len(back) >= BLOCK_SIZE THEN "lock_realloc" ELSE "append")
  /\ UNCHANGED <<shared, locks, local, calls>>

(* Fault: the blocks are changed while others read them.                    *)
lock_realloc_unguarded(t) ==
  /\ pc[t] = "lock_realloc"
  /\ Goto(t, "grow")
  /\ UNCHANGED <<shared, locks, local, calls>>

lock_realloc(t) ==
  /\ pc[t] = "lock_realloc" /\ writer = Nobody /\ readers = {}
  /\ writer' = t
  /\ Goto(t, "grow")
  /\ UNCHANGED <<shared, mutex, readers, local, calls>>

grow(t) ==
  /\ pc[t] = "grow"
  /\ data' = Append(data, <<>>)
  /\ Goto(t, "rebase")
  /\ UNCHANGED <<total_elems, block_base, locks, local, calls>>

(* ... and the end of the block that holds realloc_mutex.                   *)
rebase(t) ==
  /\ pc[t] = "rebase"
  /\ block_base' = block_base + BLOCK_SIZE
  /\ writer' = Nobody
  /\ Goto(t, "append")
  /\ UNCHANGED <<data, total_elems, mutex, readers, local, calls>>

append(t) ==
  /\ pc[t] = "append"
  /\ data' = [data EXCEPT ![Len(data)] = Append(@, local[t].elem)]
  /\ Goto(t, "count")
  /\ UNCHANGED <<total_elems, block_base, locks, local, calls>>

count(t) ==
  /\ pc[t] = "count"
  /\ total_elems' = total_elems + 1
  /\ Goto(t, "index")
  /\ UNCHANGED <<data, block_base, locks, local, calls>>

(* Fault: the index is the number of elements.                              *)
index_too_high(t) ==
  /\ pc[t] = "index"
  /\ local' = [local EXCEPT ![t].answer = Pushed(total_elems)]
  /\ mutex' = Nobody
  /\ Goto(t, "idle")
  /\ UNCHANGED <<shared, writer, readers, calls>>

index(t) ==
  /\ pc[t] = "index"
  /\ local' = [local EXCEPT ![t].answer = Pushed(total_elems - 1)]
  /\ mutex' = Nobody
  /\ Goto(t, "idle")
  /\ UNCHANGED <<shared, writer, readers, calls>>

-----------------------------------------------------------------------------
(* at, of an index below size() *)

at(t, i) ==
  /\ i < total_elems
  /\ Begin(t, "lock_shared")
  /\ local' = [local EXCEPT ![t].idx = i]

lock_shared(t) ==
  /\ pc[t] = "lock_shared" /\ writer = Nobody
  /\ readers' = readers \cup {t}
  /\ Goto(t, "fetch")
  /\ UNCHANGED <<shared, mutex, writer, local, calls>>

(* What data.at(...).at(...) gives; the code shifts by 5 for every          *)
(* BLOCK_SIZE.                                                              *)
fetched(i) ==
  LET offset == i % BLOCK_SIZE
      block  == IF i >= block_base THEN Len(data)
                ELSE ((i - offset) \div 2 ^ BLOCK_SHIFT) + 1
  IN  IF block \in DOMAIN data /\ offset < Len(data[block])
        THEN Fetched(i, data[block][offset + 1])
        ELSE <<"out_of_range">>

(* Fault: the shared lock is kept.                                          *)
fetch_and_keep(t) ==
  /\ pc[t] = "fetch"
  /\ local' = [local EXCEPT ![t].answer = fetched(local[t].idx)]
  /\ Goto(t, "idle")
  /\ UNCHANGED <<shared, locks, calls>>

fetch(t) ==
  /\ pc[t] = "fetch"
  /\ local' = [local EXCEPT ![t].answer = fetched(local[t].idx)]
  /\ readers' = readers \ {t}
  /\ Goto(t, "idle")
  /\ UNCHANGED <<shared, mutex, writer, calls>>

-----------------------------------------------------------------------------

Init ==
  /\ data = << <<>> >>
  /\ total_elems = 0 /\ block_base = 0
  /\ mutex = Nobody /\ writer = Nobody /\ readers = {}
  /\ pc = [t \in Thread |-> "idle"]
  /\ local = [t \in Thread |-> [elem |-> <<>>, idx |-> 0, answer |-> NoAnswer]]
  /\ calls = [t \in Thread |-> 0]

Step(t) ==
  \/ lock(t) \/ check(t) \/ lock_realloc(t) \/ grow(t) \/ rebase(t)
  \/ append(t) \/ count(t) \/ index(t)
  \/ lock_shared(t) \/ fetch(t)

Next ==
  \E t \in Thread :
    \/ push_back(t)
    \/ \E i \in 0 .. total_elems - 1 : at(t, i)
    \/ Step(t)

Spec == Init /\ [][Next]_vars

(* Threads are scheduled, and a thread gets a lock that stays free.  Calls  *)
(* are never forced.                                                        *)
FairSpec == Spec /\ \A t \in Thread : WF_vars(Step(t))

-----------------------------------------------------------------------------
(* Correctness *)

InPush(t) == pc[t] \in {"check", "lock_realloc", "grow", "rebase", "append",
                        "count", "index"}

(* The locks: mutex is held by the one thread that is inside push_back,     *)
(* realloc_mutex by the readers or by the thread that adds a block.         *)
Exclusion ==
  /\ \A t \in Thread : InPush(t) <=> mutex = t
  /\ \A t \in Thread : pc[t] \in {"grow", "rebase"} <=> writer = t
  /\ \A t \in Thread : pc[t] = "fetch" <=> t \in readers
  /\ writer # Nobody => readers = {}

(* A block never holds more than was reserved for it, so its elements never *)
(* move and the references at gave out stay valid; all but the last are     *)
(* full, and block_base and total_elems describe the blocks whenever no     *)
(* thread is between the statements that change them.                       *)
Layout ==
  /\ \A b \in DOMAIN data : Len(data[b]) <= BLOCK_SIZE
  /\ \A b \in 1 .. Len(data) - 1 : Len(data[b]) = BLOCK_SIZE
  /\ (\A t \in Thread : pc[t] # "rebase")
       => block_base = (Len(data) - 1) * BLOCK_SIZE
  /\ (\A t \in Thread : pc[t] \notin {"rebase", "count"})
       => total_elems = block_base + Len(back)

TypeOK ==
  /\ data \in Seq(Seq(Holder)) /\ Len(data) > 0
  /\ total_elems \in Nat /\ block_base \in Nat
  /\ mutex \in Thread \cup {Nobody} /\ writer \in Thread \cup {Nobody}
  /\ readers \subseteq Thread
  /\ calls \in [Thread -> 0 .. MaxCalls]
  /\ \A t \in Thread : local[t].answer # <<"out_of_range">>

(* The element of index i, wherever its block is.                           *)
element(i) == data[(i \div BLOCK_SIZE) + 1][(i % BLOCK_SIZE) + 1]

(* "Return the immutable concrete value of the corresponding unique         *)
(* identifier when requested" (guide.md): at gives the element of the index *)
(* it is called with.                                                       *)
AtReturnsElement ==
  \A t \in Thread :
    LET r == local[t].answer
    IN  r # NoAnswer /\ r[1] # "push_back" =>
          r[1] = "at" /\ r[3] = element(r[2])

(* The storage is linearizable: push_back takes effect when it counts its   *)
(* element, at when it fetches.                                             *)
Storage == INSTANCE IndexedStore WITH
  Element <- Holder,
  store   <- [k \in 1 .. total_elems |-> element(k - 1)],
  answer  <- [t \in Thread |-> IF pc[t] = "index"
                                 THEN Pushed(total_elems - 1)
                                 ELSE local[t].answer]

Linearizable == Storage!Spec

(* Every call returns: the two locks never wait for each other.             *)
EveryCallReturns == \A t \in Thread : pc[t] # "idle" ~> pc[t] = "idle"
=============================================================================
