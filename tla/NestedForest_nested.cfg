\* Two keys with nested sets over one property, one key with nested sets over
\* two.
CONSTANTS
  p1 = p1
  p2 = p2
  Property = {p1, p2}
  Key = {1, 2}
  Filter = {}
  MaxSets = 4
  MaxChildSets = 4
  MaxRecords = 2
  MaxComputed = 2
  MaxChildRecords = 2
SPECIFICATION MCSpec
SYMMETRY Symmetry
VIEW View
\* The bounds stop an operation in progress.
CHECK_DEADLOCK FALSE
INVARIANT TypeOK
INVARIANT AnswersFlattened
INVARIANT ContainmentsKeyed
INVARIANT AnswerRemembered
