\* Two threads, blocks of two elements.
CONSTANTS
  t1 = t1
  t2 = t2
  Nobody = Nobody
  Thread = {t1, t2}
  MaxCalls = 4
  BLOCK_SIZE = 2
  BLOCK_SHIFT = 1
SPECIFICATION FairSpec
\* Every thread stops after its last call.
CHECK_DEADLOCK FALSE
INVARIANT TypeOK
INVARIANT Exclusion
INVARIANT Layout
PROPERTY Linearizable
PROPERTY EveryCallReturns
