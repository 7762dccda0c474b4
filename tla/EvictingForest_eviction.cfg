\* Sets that go and come back, in the lattice over two properties.
CONSTANTS
  p1 = p1
  p2 = p2
  Property = {p1, p2}
  Filter <- Singletons
  MaxSets = 4
  MaxRecords = 2
SPECIFICATION MCSpec
SYMMETRY Symmetry
VIEW View
INVARIANT TypeOK
INVARIANT HoldersFaithful
PROPERTY AnswersPresent
PROPERTY EvictionTransparent
