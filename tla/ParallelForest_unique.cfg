\* The guide's first guarantee, under races.
CONSTANTS
  t1 = t1
  t2 = t2
  p1 = p1
  p2 = p2
  Thread = {t1, t2}
  Property = {p1, p2}
  MaxCalls = 2
  Prepared <- Nothing
  Filter = {}
SPECIFICATION Spec
SYMMETRY Symmetry
\* Every thread stops after its last call.
CHECK_DEADLOCK FALSE
INVARIANT UniqueIdentifiers
