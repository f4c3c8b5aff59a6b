SPECIFICATION HbSpec
CONSTANT MaxSilence = 16
INVARIANT SilentIsDisconnected
CHECK_DEADLOCK FALSE
