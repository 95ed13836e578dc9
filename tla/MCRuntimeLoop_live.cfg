SPECIFICATION FairSpec
CONSTANTS
  d1 = d1
  d2 = d2
  Driver = {d1}
  MaxProposals = 1
  REPLAN_ELIGIBLE_AT = 1
  FORCE_CONVERGE_AT = 2
  EPOCH_CONVERGE_AT = 2
  TASK_CONVERGE_AT = 2
  MAX_REPLAN_PER_TASK = 1
  Signals = {}
PROPERTIES
  StalledTaskEnds
  CancelClosesRuntime
CHECK_DEADLOCK FALSE
