SPECIFICATION ChunkSpec
CONSTANTS
  Documents <- MCDocuments
  parent_max_tokens = 4
  child_max_tokens = 3
  overlap_tokens = 1
INVARIANTS
  SkippedLevelsAreFilled
CHECK_DEADLOCK FALSE
