SPECIFICATION MuSpec
CONSTANT MaxFiles = 1
INVARIANT OnlyScannedStored
CHECK_DEADLOCK FALSE
