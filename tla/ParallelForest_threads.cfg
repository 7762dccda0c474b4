\* Threads that start from two sets with no element in common.
CONSTANTS
  t1 = t1
  t2 = t2
  p1 = p1
  p2 = p2
  Thread = {t1, t2}
  Property = {p1, p2}
  MaxCalls = 3
  Prepared <- TwoSets
  Filter <- Single
SPECIFICATION Spec
SYMMETRY ThreadSymmetry
\* Every thread stops after its last call.
CHECK_DEADLOCK FALSE
INVARIANT RecordsSound
INVARIANT AnswersRight
INVARIANT AnswersRemembered
INVARIANT TypeOK
INVARIANT StoredIsFindable
INVARIANT DuplicatesBounded
