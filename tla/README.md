# Verification of LHF

TLA+ specifications, TLC model-checking runs and TLAPS proofs for the Lattice
Hash Forest (LHF), the header-only C++ library in `workdir/lhf`, and for its
main user, the points-to analysis in `workdir/lfcpa`. Line numbers are those of
`workdir/lhf/src/include/lhf/lhf.hpp` unless another file is named; `Analysis.h`,
`Worklist.h`, `Context.h` and `TransitionGraph.cpp` are in
`workdir/lfcpa/VASCO-LFCPA/include`, `lfcpa.cpp` next to it.

## The system

The repository is a research artifact: the library, a points-to analysis that
uses it, benchmarks that compare it with a naive implementation, and scripts.

| Part | Source | State it keeps | Operations | Modelled in |
|---|---|---|---|---|
| Lattice hash forest | 1095-2456 | the stored property sets by index; `property_set_map` from a set to its index; operation maps `unions`, `intersections`, `differences`; known containments `subsets`; per predicate a filter cache, owned by the caller | `register_set` (all overloads), `register_set_single`, `set_union`, `set_intersection`, `set_difference`, `set_insert_single`, `set_remove_single`, `set_remove_single_key`, `set_filter`, `is_subset`, `get_value` | `LatticeHashForest` |
| The forest shared by threads | `MapAdapter` 727-778 and all operations, under `LHF_ENABLE_PARALLEL` | the same, and the variables of each thread | the same, in the steps that locks leave atomic | `ParallelForest` |
| Parallel storage | 1319-1383 | blocks, `total_elems`, `block_base`, `mutex`, `realloc_mutex` | `push_back`, `at`, `size` | `BlockStorage` |
| Nesting | `NestingBase` 848-1014 | references to child forests; elements that hold child indices | every operation, descending into the child at common keys | `NestedForest` |
| Eviction | 1238-1277, 1763-1776 and the `LHF_EVICTION` branches | holders that have lost their set, whose elements live on as the keys of `property_set_map` | `evict_set`, `is_evicted`, reassignment in every operation | `EvictingForest` |
| Sorted vectors | merge loops, `find_key`, `contains`, `prepare_vector_set`, `verify_property_set_integrity` | cursors, bounds of the search, the vector that is made | the same | `SortedVectors` |
| VASCO framework | `Analysis.h`, `Worklist.h`, `Context.h`, `TransitionGraph.cpp` | two worklists, contexts, the transition graph, the values before and after every instruction of every context | backward and forward passes over blocks until both worklists are empty; creation and reuse of contexts at calls | `Vasco` |
| LFCPA | `lfcpa.cpp`, `lfcpa.h`, `Common.h` | none: flow functions on liveness and points-to values | `computeInFromOut`, `computeOutFromIn`, meets, boundaries, restrictions, what passes between caller and callee | `PointsTo` |
| SLIM and the splitting of blocks | `Analysis.h` 1961-2047, `workdir/lfcpa/SLIM/IR.cpp` 1067-1328, 2817-2905 | the program | `performSplittingBB`, the assignments of arguments and results around calls, the tables of last, exit and terminating blocks | `SlimProgram` |
| Deduplicator | 2480-2565 | a list of values and their indices | `register_value` | no: nothing instantiates it |
| Profiling | `profiling.hpp` | timers, counters | | only which counter a call increases |
| Benchmarks | `workdir/abstract` | two implementations of one interface | random and closed-world workloads | no, see the end |
| Builder tool, scripts | `workdir/lhf/src/builder_tool`, `tool.py` | | | no, see the end |

How they interact. All user code calls the forest's operations; an operation
looks into its map, computes on the stored sets, registers the result and
records it. A nested forest's operations call the child's. In the parallel
build threads share one forest through locks on the single maps and on the
storage; no lock is held over two of them. The analysis keeps its data-flow
values as indices and compares indices where it means sets, which is why one
set must have one index. VASCO takes a block from a worklist, has LFCPA compute
each instruction's value, and puts on either worklist what that may have
changed: the predecessors, the successors, the same block in the other
direction, the callers. LFCPA's liveness asks for the points-to value and its
points-to value for the liveness.

What is hard:

- **Shortcuts.** An operation may be answered from equality, emptiness, a
  recorded containment or its own map, and it writes the maps of others: a
  difference records a disjoint intersection, every operation records
  containments. What is remembered must be true, and must not make a later
  answer change.
- **Interleaving.** In the parallel build everything is find, then act.
- **Locks and layout.** `at` runs while an element is appended to the block it
  reads and must never see the outer vector move.
- **Two forests.** The parent remembers indices of a child that changes in the
  middle of the parent's operations.
- **Sets that are away.** With eviction an index may stand for a set that is
  not there. Equality, emptiness and containment still answer with it, a map
  may remember it as a result, and a recomputed result is written over the
  holder without asking which set was there before.
- **Loops nobody checks.** The merge loops need sorted operands without
  duplicate keys and register what they make with the integrity check disabled.
- **A fixpoint of two analyses.** Each direction is computed from values of the
  other that were early, and must be computed again when they move; a block
  that is queued is not queued again; a new context takes over the processing
  label in the middle of its caller's block; what entered a callee may have
  changed when the callee has been analysed; and what a function returns turns
  from a local into a global when its return is first handled.

Correctness: for the flat forest, an index stands for one set for ever, every
answer is the index of the right set, and what was computed is never computed
again. For the shared forest, the same as far as the locks give it. For the
storage, linearizability and references that stay valid. For nesting, agreement
with the flattened pairs, which the guide promises. For eviction, that nobody
can tell: the forest behaves as one that never evicts. For the vectors, that
they are the sets they are taken for. For the analysis, that it ends, that its
worklists lose nothing, that it analyses a function once per inflow, and that
what it recorded is true of the program when it runs.

## Modules

| Module | What it is | Its state and actions in the code |
|---|---|---|
| `UniqueIndexing` | abstract specification of a forest: a store of distinct sets that only grows, and answers that are the indices of the sets the operations ask for | what a caller may rely on (`doc/guide.md` 121-135) |
| `ForestData` | the members of a forest as a record, the single statements on them (`registered`, `store_subset`, `union_recorded`, ...) and what it means for them to be right | members 1424-1434; one operator per block of code |
| `LatticeHashForest` | the forest, one thread | `forest` the members, `caches` the caller's maps, `reply` the last call with its result and counter; one action per public operation |
| `MCLatticeHashForest` | bounds for TLC | |
| `LatticeHashForestProofs` | its theorems | |
| `ForestDataProofs` | lemmas on `ForestData`, used by the proofs on the forests | |
| `ParallelForest` | several threads on one forest | `pc` and `local` of each thread; one action per step between two lock operations: `check_subset`, `lookup`, `filter`, `find`, `push_back`, `insert`, `record`, `record_filter`, `relate`; the calls with one element register it first and go on with its index; `caches` are filter caches that the threads share |
| `MCParallelForest` | its initial sets and symmetry | |
| `ParallelForestProofs` | its theorems | |
| `IndexedStore` | abstract specification of the storage: one sequence, appended and read | what `ParallelForest` takes `push_back` and `get_value` to be |
| `BlockStorage` | the parallel storage | one action per statement of `push_back` and `at` that touches shared state |
| `BlockStorageProofs` | its theorems | |
| `NestedForest` | a parent over a child forest | `parent` and `child` are two records of `ForestData`; the child's actions are those of `LatticeHashForest`, by `INSTANCE`; `merge` holds an operation between two calls of the child |
| `MCNestedForest` | bounds for TLC | |
| `NestedForestProofs` | its theorems | |
| `EvictingForest` | the forest built with eviction | the members of `ForestData`, with holders (a set of at most one property set) for property sets; `caches`, `reply`; one action per public operation and `evict_set` |
| `MCEvictingForest` | bounds for TLC | |
| `EvictingForestProofs` | its theorems | |
| `SortedVectors` | the loops over vectors | `call` the call in progress with its operands, `new_set`, `cursor_1`, `cursor_2` the iterators, `low`, `high` of the binary search; one action per loop, one step per turn |
| `MCSortedVectors` | vectors and calls for TLC | |
| `SortedVectorsProofs` | its theorems | |
| `PointsTo` | LFCPA's flow functions, as operators on sets of variables and of pairs | one operator per function of `lfcpa.cpp` |
| `SlimProgram` | a program: blocks, instructions, successors, split at calls | `performSplittingBB`, `getLastBasicBlock`, `getExitBBList`, `getTerminatingBBList`; `Translated` adds the assignments of `processCallInstruction` and `addReturnArgumentForCall`; `Alloca` are the operands that SLIM marks with `setIsAlloca`, which `lfcpa.cpp` does not treat like globals |
| `Vasco` | the engine running LFCPA | `contexts`, `graph`, `marked` (what `setVariableGlobal` was called on), `forward_worklist`, `backward_worklist`, `SLIM_IN` and `SLIM_OUT` by context and instruction, `processing` the label that values are written to, `work` the block in hand; per direction one action that takes a block, one for an instruction, one for a call with a context, one for a call without, one that ends the block; `Turn` is the loop of `doAnalysis` |
| `ProgramRun` | external: a run of the analysed program in LLVM's semantics, after the analysis | `memory`, `frames`; a frame keeps the context that the analysis has for it |
| `MCVasco` | the analysed programs | |
| `VascoInvariant` | the invariant of the engine, in five parts, and what its steps do | |
| `VascoProofs` | its theorems | |

`NestedForest` composes two forests. `ParallelForest` and `BlockStorage` are
composed by contract: `BlockStorage` implements `IndexedStore`, and
`ParallelForest` uses the storage only as `IndexedStore` allows (append in one
step, read in one step).

The forest modules take a sorted vector of properties for the set of its
elements, and a merge loop for a set operator. `SortedVectors` justifies that:
the loops compute those operators (`MergesRight`), and a set has one vector
(`OneVectorPerSet`), so that comparing vectors is comparing sets.

`EvictingForest` implements `LatticeHashForest`: the refinement mapping gives
every evicted holder the key that `property_set_map` keeps for its index.
`Vasco` is composed of `SlimProgram` and `PointsTo`; `ProgramRun` runs `Vasco`
to its end and then the program. Values of the analysis are sets there, as the
forest's indices are canonical.

Definitions marked `Fault` are mistakes that the properties must notice. No
specification uses them.

Choices of the nested model: one child forest (with several, the same call is
made once for each child, independently), and keys are numbers whose order is
the order in which common keys descend, which decides the new child indices.

## Runs

| Run | What it checks | Bounds |
|---|---|---|
| `lattice` | `TypeOK`, `IndexCanonical`, `RecordsSound`, `AnswerRemembered`, and `KeepsPromise`: refinement of `UniqueIndexing` | two properties, so all four sets; one computed operation remembered, with all that it leaves behind; one filter per property |
| `overlap` | `ByProductsKept`, `NeverRecomputed` | three properties, four sets, two remembered operations: the smallest instance where sets overlap without containment and where a recorded containment can overtake a recorded operation |
| `threads` | `TypeOK`, `StoredIsFindable`, `DuplicatesBounded`, `RecordsSound`, `AnswersRight`, `AnswersRemembered` | two threads, three calls in all, starting from `{p1}` and `{p2}`: any two calls race on operands that overlap in nothing, and a third call, of the thread that is done first, works with what the others have left unfinished; one filter |
| `storage` | `TypeOK`, `Exclusion`, `Layout`, `Linearizable`, and `EveryCallReturns` under fairness | two threads, four calls each, blocks of two elements: up to four blocks, added while others read |
| `nested` | `TypeOK`, `AnswersFlattened`, `ContainmentsKeyed`, `AnswerRemembered` | from two kinds of initial states: one key, all four nested sets over two properties, four parent sets, two operations of the parent remembered, one of the child's own; and two keys over one property, so that elements are in one operand only and one operation calls the child twice |
| `eviction` | `TypeOK`, `HoldersFaithful`, `AnswersPresent`, and `EvictionTransparent`: refinement of `LatticeHashForest` | all four sets over two properties, any of them evicted any number of times, two remembered operations or one filtered set: a result and both its operands can be away, and come back in each of the three ways |
| `lfcpa` | `TypeOK`, `CallsAlone`, `UsesSound`, `NeighboursCurrent`, `CallsCurrent`, `NeedsCurrent`, `ContextsUnique`, `FirstPassLearns`, `Terminates` | 540 programs over four globals, an allocated object, an address-taken local and twelve registers, two of them arguments: a function called twice, with and without arguments; arguments passed on and results handed back through two calls; recursion on one way of a branch, with and without a result; loops; phis at a join and at the head of a loop; allocations; a local that is written by its name, through a pointer or by a function that its address is passed to, and read through pointers (32 programs) or by its name (12, of which `UsesSound` claims nothing); and seven programs made for a case each (a store that reaches two variables, a call in a loop, a loop that never ends, exits with and without a call, a call of a defined function that exits, calls in several blocks); runs of up to three frames, every branch either way |
| `vectors` | `TypeOK`, `MergedRight`, `SearchedRight`, `CheckedRight`, `Terminates` | all pairs of vectors of six keys, and of three keys that nest one of two sets, through each loop; all searches with the threshold scaled down to two; all vectors of up to four elements of three keys with two values, through preparation and check |

The bounds `MaxSets`, `MaxChildSets`, `MaxRecords`, `MaxChildRecords` and
`MaxComputed` are in the next-state relations of the MC modules, `MaxCalls` in
the guard of a call. Remembered and computed operations are bounded apart
because a difference that removes nothing records an intersection with the
difference. Two threads are enough for the races of the parallel build, since
every race is of one thread's find against one other's insert, and for the two
locks, where one thread holds what the other waits for. The storage's block
size is scaled down, and `BLOCK_SHIFT` with it. In the nested runs the caller has
registered the one-element child sets before, and calls that change neither
forest are left out, since the invariants speak of everything the forests can
answer; what the child returned last is not part of the view, since no action
reads it. The programs of `lfcpa` are built from chunks of one to three
instructions that change, read or copy a pointer, put before, into and behind
the calls and branches, so that every flow function feeds every other over each
kind of edge; what is called returns its argument, what it points to or something
else, or stores through it. The analysis itself is not bounded. `Formal`
holds the two arguments and one register, `v`, that SLIM marks like an argument
because a call is translated before the function that returns it
(`IR.cpp` 1317); `NoReturn` names the defined function that exits. Six keys make
the binary search turn both ways, and leave each cursor ahead of the other by more than one.
`CHECK_DEADLOCK FALSE` is set where threads or calls stop at their end,
or where a bound can stop a nested operation between two child calls.

A call of `threads` takes up to nine steps, so that three in all are what fits;
a third is needed, because a thread has to come back to what another has
appended and not yet put into the map. What longer runs could still break is a
matter of proof: the theorems on `ParallelForest` hold for any number of threads
and calls.

Four runs show the code against a statement of its documentation:

| Run | Statement | What the code does |
|---|---|---|
| `byproducts` | guide 204: the containments between operands and result are stored | 2299: `set_intersection` records a proper intersection as contained in one operand only; the branch for both (2303) cannot be reached |
| `unique` | guide 126: a set has a unique identifier | 1589-1597: in the parallel build two threads store the same set twice |
| `intersection` | guide 627: an operation descends where keys are equal | 2159: after a difference that removed nothing, the intersection is recorded as empty although the operands share a key |
| `fixed_point` | `Analysis.h` 3132: the dataflow values reach a fixed point | `Analysis.h` 4541-4586, 5012: in a block `[p = x; call f; br]` the forward pass moves the call to another context that exists, drops what that context needs (`d4`), and queues the block backwards only if what enters its first instruction has changed: the needs never reach the call |

Of these, `unique` matters most: code that compares indices, as the analysis
does, takes equal sets for different ones. The answers stay right as sets
(`AnswersRight`), and `DuplicatesBounded`, which is proved for any number of
threads, shows that the damage is bounded by that number. For the same reason two threads that compute one operation at
the same time may return different indices of the same set.

The program of `fixed_point` is not among the 540 of `lfcpa`, and what its run
ends with is not sound either: the pointee that `f` loads from is not live before
the second call of `f`, so what it points to is lost. `NeedsCurrent` says where the
engine does pass on what a callee needs: at a call that starts its block.

## Fairness

Three modules have a liveness property.

`BlockStorage`: `FairSpec` assumes weak fairness of
each thread's steps inside a call: threads are scheduled, and a lock that stays
free is obtained. It does not assume that calls are made. `std::shared_mutex`
gives a waiting writer no priority, so a thread that adds a block could wait for
ever behind an endless stream of readers; `EveryCallReturns` therefore depends on
`MaxCalls`, that is, on threads that make finitely many calls, and shows that
the two locks themselves never block each other.

`Vasco` and `SortedVectors`: weak fairness of the next step, since one thread
runs the loops and nothing in them waits. `ProgramRun` assumes it of the
analysis only, not of the program it runs, which need not end.

## Proofs

`LatticeHashForestProofs` proves for every set `Property` and every `Filter`:

| Theorem | Statement |
|---|---|
| `TypeCorrect` | `Spec => []TypeOK` |
| `OneIndexPerSet` | `Spec => []IndexCanonical` |
| `RecordsTrue` | `Spec => []RecordsSound` |
| `Implementation` | `Spec => KeepsPromise`: the forest implements `UniqueIndexing` |
| `Remembering` | `Spec => []AnswerRemembered` |
| `MemoryStable` | `Spec => NeverRecomputed`, about steps |
| `ByProducts` | `Spec => []ByProductsKept` |
| `CountersTrue` | `Spec => MissesClassified`, about steps |

The inductive invariant is the conjunction `TypeOK /\ IndexCanonical /\
RecordsSound`. None of its parts is inductive alone: that a remembered result is
right needs the containments that answered a shortcut to be true, that the new
record is true needs the index of the registered set to be canonical, and both
need all indices to exist. Lemmas on `ForestData` state once what `registered`,
`store_subset` and the three `..._recorded` operators keep; the lemma for an
operation splits it into its ways of being answered; the step theorem has one
case per action. `Implementation` follows from the invariant: a step either
leaves the store alone or appends a set it did not hold, and its answer is the
index of the set the operation stands for.

The last four theorems are about memory. `Remembers` relates the members before
and after a call: every entry of every map is kept, and every containment that
was known. An answer from memory is then still given (`RememberedKept`); that it
is the same one, although a containment recorded later is looked up before the
operation's own map, follows from the truth of both (`RememberedTrue`) and from
`IndexCanonical`: two indices of the same set are equal. `Outcome` says of a
step what its call has learnt, for every way of being answered, and the four
theorems read off what they need.

The only assumption is `FilterAssumption`: filters are sets of properties.

`SortedVectorsProofs` proves for every set of integer keys, every set of nested
values, every child forest and every threshold of the searches:

| Theorem | Statement |
|---|---|
| `VectorTypes` | `Spec => []TypeOK` |
| `MergesRight` | `Spec => []MergedRight` |
| `SearchesRight` | `Spec => []SearchedRight` |
| `ChecksRight` | `Spec => []CheckedRight` |
| `OneVectorPerSet` | two property sets with the same elements are the same vector |

The inductive invariant `IInv` adds what holds inside each loop. For a merge loop
that is `Merging`: what has been pushed is sorted, is the operation's result on
what the cursors have passed, and both that and what has been passed comes before
all that is ahead. The last part is what makes the invariant inductive: it lets an
element be pushed, and says that an element passed alone has no partner in the
other operand. The lemmas `ResultFirst`, `ResultSecond` and `ResultBoth` say how
the result on sets grows with one more element, `AdvanceFirst` and its like put
that and the order together, and each loop's step picks the lemma of its
branch. For the searches the invariant is that the key is at none of the
positions left out; for the check, that the elements passed are in order.
`OneVectorPerSet` looks at the first position where the vectors differ, which
exists because the naturals are well founded. The assumption is
`VectorAssumption`: keys are integers (any total order would do that the provers
know), the child's operations return nested values, the threshold is a natural.

`ParallelForestProofs` proves for every set of threads, of properties and of
filters, every sequence of initial sets and every number of calls:

| Theorem | Statement |
|---|---|
| `TypeCorrect` | `Spec => []TypeOK` |
| `StoredFound` | `Spec => []StoredIsFindable` |
| `RecordsTrue` | `Spec => []RecordsSound` |
| `AnswersTrue` | `Spec => []AnswersRight` |
| `AnswersKept` | `Spec => []AnswersRemembered` |
| `RacesBounded` | `Spec => []DuplicatesBounded` |

What makes the interleavings manageable is that a forest only grows. `Later` is
the relation between a forest and what any thread makes of it: the stored sets
stay a prefix, records are only added. The inductive invariant `IInv` says that
what the maps hold is true of the stored sets (`Trusted`, `CachesTrue`), and what
each thread knows at each label: which operands it works on, that the set in its
hand is the operation's result, that the index in its hand is an index of that
set, that the containments it is about to record are true. All of it is stable
under `Later`, so a step of one thread need not be looked at against each label of
the others: the lemma that stability is proved once, each action proves that its
own step is one to a `Later` forest and that the thread knows what its next label
asks for. `StoredIsFindable` needs more, since a set is stored before it can be
found: the invariant names the thread that is between the two.

`AnswersKept` strengthens the invariant by what a thread that has its result has
recorded already, label by label, and by the same for calls that ended; other
threads add records but overwrite none. `RacesBounded` counts without induction
over threads: every copy of a set has an owner, the thread that appended it, and
a thread owns at most one copy of a set, since after its append it is between the
two locks and then the set is in the map, where its next `find` sees it. The
copies are thus mapped one to one into the threads, and finite sets compare by
such a map (`FiniteSetTheorems`). `ThreadAssumption` says that the threads are
finitely many, and at least one.

`BlockStorageProofs` proves for every set of threads, every number of calls and
every block size:

| Theorem | Statement |
|---|---|
| `LocksExclude` | `Spec => []Exclusion` |
| `BlocksLaidOut` | `Spec => []Layout` |
| `StorageTypes` | `ShiftFits` implies `Spec => []TypeOK` |
| `FetchesTrue` | `ShiftFits` implies `Spec => []AtReturnsElement` |
| `StorageLinearizable` | `ShiftFits` implies `Spec => Linearizable`: the storage implements `IndexedStore` |

`ShiftFits` is `BLOCK_SIZE = 2 ^ BLOCK_SHIFT`, which holds of the default block
size in the code and of no other (1353, 1363, each under a TODO): with
another block size an index below `block_base` is looked up in a wrong block, and
the theorem says that nothing else is wrong with `at`. The run `storage` has a
shift that fits, so it does not show that. The invariant says who holds which lock at each label, that all blocks
but the last are full, and what `block_base` and `total_elems` are between the
statements of `push_back` that change them: a reader sees them there too. An
index that a caller may ask for is below `total_elems`, so the element is in a
block whatever statement the writer has reached. The refinement maps the storage
to the sequence of the elements counted so far; `push_back` takes effect at
`total_elems++` and `at` where it fetches.

`EvictingForestProofs` proves for every set `Property` and every `Filter`:

| Theorem | Statement |
|---|---|
| `TypeCorrect` | `Spec => []TypeOK` |
| `HoldersTrue` | `Spec => []HoldersFaithful` |
| `AnswersThere` | `Spec => AnswersPresent`, about steps |
| `Transparency` | `Spec => EvictionTransparent`: the evicting forest implements `LatticeHashForest` |

`Restored(f)` is the forest had nothing been evicted: the elements are taken from
the keys of `property_set_map`. The invariant `EInv` says that it is well formed
and true (`ForestInv`), and that a holder is empty or has the set that its index
stands for there. `StoredLemma` and `HolderLemma` say that registering a set,
dropping one and bringing one back do to `Restored(f)` what `registered` does,
or nothing; `Alike` carries the three `..._recorded` operators over, which read
and write maps only. For each operation one lemma (`UnionGood` and its like)
splits its ways of being answered and gives for each the way in which the forest
that never evicts answers; that a recomputed set is the one that went follows
from the truth of the map that led to it. Theorems of a module cannot be cited
through its `INSTANCE` here, so these lemmas speak of the operators
`Unevicted!...` themselves, which `SameOperators` and `SameRecording` identify
with those of `ForestData`.

`NestedForestProofs` proves for all sets of keys, of properties and of filters of
the child:

| Theorem | Statement |
|---|---|
| `TypeCorrect` | `Spec => []TypeOK` |
| `FlatteningRight` | `Spec => []AnswersFlattened` |
| `ContainmentsTrue` | `Spec => []ContainmentsKeyed` |
| `Remembering` | `Spec => []AnswerRemembered` |

The proof looks at a parent set key by key: `V(c, s, k)` is what the set `s` nests
under the key `k` in the child `c`. The child only grows, so a call of it, the
parent's or another caller's, leaves every `V` as it is (`CombinesLater`,
`RecordedLater`, `MergeLater`). The inductive invariant `IInv` has the child's own
invariant, which `ForestDataProofs` keeps; that the parent stores each set once
and that its maps are true at every key (`Recorded`); and while an operation is in
progress, that what it has merged is the operation's result at every key that is
not still to do (`MergeInv`). Neither property is inductive as the run states it.
Truth of the flattened pairs does not tell apart sets that differ in the keys
under which nothing is nested, and a containment that answers a union must keep
those keys: hence the statement by keys. For intersections the invariant claims
the pairs only, since a difference that removes nothing records an empty
intersection of sets that may have keys in common, which is the finding of the run
`intersection`. That an operation in progress finds its next key needs a
least element, from the well-foundedness of the naturals. `NestingAssumption`
says that keys are naturals and filters are sets of properties.

`VascoProofs` proves for every set of modules that have the form LLVM gives them
(`IsSource`: instructions with the operands of their kind, blocks with one
terminator, at their end, that name blocks of their function, orders without
repetition that start or end where LLVM's do), whatever their functions, branches,
calls and recursion:

| Theorem | Statement |
|---|---|
| `SplitRight` | `IsSource(prog) => IsProgram(Translated(startSplitting(prog)))` |
| `TypeCorrect` | `Spec => []TypeOK` |
| `CallsSplit` | `Spec => []CallsAlone` |
| `Recorded` | `Spec => []CallsRecorded` |
| `OncePerInflow` | `Spec => []ContextsUnique` |
| `NoChangeLost` | `Spec => []NeighboursCurrent` |
| `LearntInFirstPass` | `Spec => FirstPassLearns`, about steps |
| `CallsAgree` | `Spec => [](EveryBlockQueued \/ marked \subseteq Global => CallsCurrent)` |
| `NeedsAgree` | `Spec => [](marked \subseteq Global => NeedsCurrent)` |

`SplitRight` is about the program before the engine runs. A block is cut at
increasing points (`SplitPointsLemma`, from the rank of a position in the set of
points) and no point lies inside a part, so that a part has a call at its start
only, with nothing but builtin calls and the branch behind it (`PartsLemma`);
the names of the parts are all different and every order of the function's blocks
becomes an order of parts without repetition (`SpreadLemma`); and the assignments
SLIM adds lie around the call, those of the arguments before it and one for the
result behind it (`WithAssignmentsLemma`), since a function has one last
block that returns (`OneReturns`). What `FlattenSeq` puts together is described by
the sequence of its intermediate results, found with the least element again
(`FlattenSteps`). `IsProgram` adds `SplitBlock` to the form of the instructions;
without it the engine, which keeps one context per call but values per
instruction, would not agree with its calls: the block proofs of `CallsAgree` use it
at every instruction before and behind a call.

Five invariants, which `VascoInvariant` holds, stand behind the others. `Typed`
is `TypeOK` with what makes it inductive: a worklist is a sequence of different
blocks of contexts that exist, an edge of the transition graph leads from a call
of the caller's function to a context of the callee, and the block in hand is
between its first and its last instruction in its direction. `Grows` is what no
step undoes: contexts stay, with their functions and inflows.

`ContextsUnique` needs more, because a block that comes again only for what its
callees return does not look for a context with the inflow, but takes the one
that the transition graph has for the call. `CallsRecorded` says that the graph
has one: a block with an edge for one of its calls has edges for all of them, a
queued entry of the kind "callee done" is of such a block, and so is the block
in hand, for the calls it is past. The context made is then one that no context
with this inflow preceded.

`NeighboursCurrent` is not inductive, since it says nothing while a block is in
hand, when its values and those of its neighbours may differ. `AllTold`
compares each block with what its neighbours have been told: for the block in
hand that is what it had when it was taken, which the engine keeps for the
comparison at the end of the block. An instruction writes inside that
block, or at the label of a context that was made on the way, whose blocks are
all queued (`WalkTold`, `PendingTold`); a block that is taken computes its own
side anew; the block's end tells its neighbours if what it passes on has changed.
`StillTold` says once what a step has to do so that no neighbour misses a
change, and each action is shown to do it.

A condition came out of the proof. A context made again from another with the same inflow
copies values only for the blocks it queues (`Analysis.h` 6909-7028). In a
function with a block that neither leads to the last block in layout nor is
without a successor, that block stays as it is, and what is live into its
successors is never told to it. `NeighboursCurrent` therefore speaks of functions
all of whose blocks are queued (`AllQueued`).

`CallsCurrent` compares the two ends of an edge of the transition graph, which
change in different contexts, with a third thing in between: what flows into a
call depends on which operands count for globals, and `lfcpa.cpp` 1086 adds to
them in the middle of the analysis, without queueing any call. Two invariants
settle it. `AllLearnt` says that a return has been handled and a called function
entered, or that this is the first backward pass, every block is still queued
forwards, and the block with the return or the call is queued or in hand before
it. `FirstPassLearns` follows: after the first forward block nothing more counts
for a global. `AllAgree` takes each call of a block of which splitting made sure
that it holds one (`Proper`) and says, for the call and its context,

- that what is live after it is what its block needs after it (`LiveAfter`),
- that the context was entered with what flows into the call now (`Entered`),
- that what the context needs is live before the call (`Needs`), and what it
  returns of what is live is after the call (`Returns`),

or else what will make it so: the block is queued, or in hand with the call
ahead, or has changed at an end, which queues it when it is done with. Each
clause names the worklist and direction that repair it, and a block that comes again
for its callees' results only repairs `Returns`, but never `Entered`. `Unmet`
says that a call without a context is ahead in both directions, `Aims` that the
block in hand is handled in its own context up to its call, with the live
values of the block, and `EdgesSettled` that a context made on the way has no
callees yet.

The hypotheses are what the argument needs. While a return is marked in the first
backward pass, calls handled before have another inflow than their context,
and only their blocks being queued forwards makes up for it; hence
`EveryBlockQueued`, the same condition as that of `NeighboursCurrent`, now for
all functions, unless functions return nothing but globals, when nothing is
marked. The forward pass then enters such a call in another
context, which may need more than is live before the call: `Needs`, and with it
`NeedsAgree`, hold for `marked \subseteq Global` only; with marks `NeedsCurrent`
is checked by TLC. `CallsCurrent` says nothing of calls in blocks that splitting does not
visit, of the last block in layout, at which a context ends, and of what a
callee needs, which is `NeedsCurrent` at the start of a block and fails behind
another instruction (run `fixed_point`).

The assumptions are `ProgramsGiven`, that the modules analysed have the form
`IsSource`, which is what LLVM verifies of a module and what SLIM's IR can express of
it, `OperandsDiffer` and `UnknownDiffers`, that globals, registers and the
unknown pointee are different things, address-taken locals among the globals and
arguments among the registers, and `NoneDiffers`, that no context has the
label that stands for none. TLC evaluates them on the 540 programs. That programs as split
and translated are well formed, on which every theorem about the engine rests,
is proved from them (`ProgramsAnalysed`).

Checked by TLC only: `UsesSound`, which relates the analysis to runs of the
program and does not hold for all of them (`fixed_point`, and the programs listed
under "What is not modelled"), and `NeedsCurrent` once a local is marked. Liveness
(`EveryCallReturns` and the two `Terminates`) is outside the prover's reach.

## Plan

Done so far: the forest, the parallel forest, the storage, eviction, nesting and
the vectors, with their proofs; the points-to analysis on its engine, with the
proofs about the engine. Next, in this order:

1. Proofs: `NeedsCurrent` for programs whose functions return locals, if it holds
   for all of them: the first forward pass moves calls to other contexts without a
   backward pass to follow, so the invariant has to compare what the contexts of a
   function need.
2. Arrays, which `lfcpa.cpp` keeps outside the data-flow values, one set of
   pointees for the whole program, and structures, whose operands carry indices.

## What is not modelled

- The checks of `LHF_DEBUG` builds, which throw and change no state. The check
  for an evicted set in `get_value` (1788) is in every build, and is modelled:
  an operation that would compute from such a set does not return.
- The containers of the TBB build, which are external. `ParallelForest` is the
  forest on top of them, if their find, insert and append are atomic.
- Unsynchronised performance counters and timers of the parallel build: data
  races whose only effect is on statistics.
- Printing, the builder tool, the scripts and the container: text in, text out.
- The `Deduplicator`: a template that nothing in the repository instantiates.
- The benchmarks: drivers that apply random operations to the forest and to plain
  sets and compare times. That the two agree is the refinement of
  `UniqueIndexing`.
- Of the analysis: calls through pointers, arrays, structures and GEP (the
  values of scalar pointers are where the two directions meet); several instances
  of a recursive function's address-taken locals, which the analysis keeps as one
  variable; the modes FISP, FSSP, FIFP, `PREANALYSIS`, `COMPUTE_CIS_FIS`,
  forward-only, backward-only and intraprocedural, and the walk over LLVM
  instructions without SLIM, which `lfcpa.cpp` does not start; the variants in
  `AnalysisDef.h` and `AnalysisGenKill.h`, which run under `PREANALYSIS` only.
- Recursion of `main`, whose first context has the label 0 that also means "no
  context" (`Analysis.h` 3654), and recursion that always happens, in the entry
  block of a function: there the callers of the entry block are queued whether
  anything changed or not, and the analysis need not end.
- Programs with an endless loop from which neither the last block in layout nor
  a block without successors is reached (`Analysis.h` 3530): its blocks are
  never queued backwards, so nothing in them is live. And inside blocks that call
  `exit`, and what they call (5308), values are left as they were. `UsesSound`
  makes no claim there, as the repository's `README.md` 315-318 says that the
  results of VASCO-LFCPA "are **not** guaranteed to be sound".
- Programs that the analysis is wrong about, which the run `lfcpa` leaves out and
  `PROJECT.json` lists as hazards: arguments of a recursive call, which SLIM
  assigns to the callee's formal arguments in the caller's block (`IR.cpp` 1256),
  where they are the caller's own; a `malloc` right after a call of a defined
  function, which stays in the call's block (`Analysis.h` 2007) and is passed over
  there; an allocation that runs more than once, whose objects a store through
  a single pointee overwrites together (`lfcpa.cpp` 4286).
- Reads of an address-taken local by its name, which the flow functions ignore, for
  a copy (`lfcpa.cpp` 1819), a comparison (1127) and a load of data (1266): they make
  nothing live, so what the local points to is lost before it is read, unless
  something else keeps it live. The analysis is modelled as it is there, and the
  engine's properties are checked of such programs; `UsesSound` leaves them
  out (`ReadsByName`).
- `sources/`: vendored programs that serve as benchmark inputs.
