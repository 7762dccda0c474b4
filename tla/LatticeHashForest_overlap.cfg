\* Three properties: sets that overlap without containing each other.
CONSTANTS
  p1 = p1
  p2 = p2
  p3 = p3
  Property = {p1, p2, p3}
  Filter = {}
  MaxSets = 4
  MaxRecords = 2
  MaxComputed = 2
SPECIFICATION MCSpec
SYMMETRY Symmetry
INVARIANT ByProductsKept
PROPERTY NeverRecomputed
