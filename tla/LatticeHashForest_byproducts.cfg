\* The guide's claim about recorded containments, for intersections.
CONSTANTS
  p1 = p1
  p2 = p2
  p3 = p3
  Property = {p1, p2, p3}
  Filter = {}
  MaxSets = 4
  MaxRecords = 3
  MaxComputed = 3
SPECIFICATION MCSpec
SYMMETRY Symmetry
INVARIANT IntersectionByProductsKept
