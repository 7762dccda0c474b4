-------------------------- MODULE MCParallelForest --------------------------
(* Instances of ParallelForest for TLC: threads and properties are          *)
(* interchangeable.                                                         *)
EXTENDS ParallelForest, TLC

CONSTANTS p1, p2

Nothing == <<>>

Single == {{p1}}

TwoSets == <<{p1}, {p2}>>

ThreadSymmetry == Permutations(Thread)

Symmetry == Permutations(Thread) \cup Permutations(Property)
=============================================================================
