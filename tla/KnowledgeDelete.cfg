SPECIFICATION KjSpec
CONSTANTS
  Entries = {"e1"}
  max_retries = 1
  MaxJobs = 1
INVARIANT DeleteDeletes
CHECK_DEADLOCK FALSE
