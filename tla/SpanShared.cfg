SPECIFICATION TrSpec
CONSTANTS
  Tasks = {"r", "a", "b"}
  Root = "r"
  MaxSpans = 3
INVARIANT OwnStack
CHECK_DEADLOCK FALSE
