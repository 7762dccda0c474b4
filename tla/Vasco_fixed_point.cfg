CONSTANTS
  None = None
  Unknown = "?"
  Global = {"g", "h", "a", "b", "o", "l"}
  Alloca = {"l"}
  Temp = {"s", "t", "r", "t1", "r1", "t2", "r2", "x", "y", "v", "p", "q"}
  Formal = {"p", "q", "v"}
  NoReturn = {"fatal"}
  Programs <- NeededLate
  MaxDepth = 3
SPECIFICATION RunSpec
INVARIANT ReachesFixedPoint
CHECK_DEADLOCK FALSE
