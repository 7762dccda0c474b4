\* The whole lattice over two properties, with filters.
CONSTANTS
  p1 = p1
  p2 = p2
  Property = {p1, p2}
  Filter <- Singletons
  MaxSets = 4
  MaxRecords = 4
  MaxComputed = 1
SPECIFICATION MCSpec
SYMMETRY Symmetry
INVARIANT TypeOK
INVARIANT IndexCanonical
INVARIANT RecordsSound
INVARIANT AnswerRemembered
PROPERTY KeepsPromise
