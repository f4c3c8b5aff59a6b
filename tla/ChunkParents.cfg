SPECIFICATION RtSpec
CONSTANTS
  parent_size = 10
  child_size = 3
  overlap = 2
  MaxTokens = 24
INVARIANT ChildInParent
CHECK_DEADLOCK FALSE
