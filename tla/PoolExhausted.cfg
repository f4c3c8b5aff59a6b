SPECIFICATION TeSpec
CONSTANTS
  Callers = {c1, c2}
  Workers = 2
PROPERTY PoolServes
CHECK_DEADLOCK FALSE
