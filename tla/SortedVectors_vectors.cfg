\* Six keys, three that nest, and a threshold that both searches meet.
CONSTANTS
  Property = {1, 2, 3, 4, 5, 6}
  Value <- Nestings
  Child <- Nested
  LHF_SORTED_VECTOR_BINARY_SEARCH_THRESHOLD = 2
  Narrow = 3
  MaxRaw = 4
SPECIFICATION MCSpec
\* A call ends.
CHECK_DEADLOCK FALSE
INVARIANT TypeOK
INVARIANT MergedRight
INVARIANT SearchedRight
INVARIANT CheckedRight
PROPERTY Terminates
