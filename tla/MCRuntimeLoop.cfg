SPECIFICATION Spec
CONSTANTS
  d1 = d1
  d2 = d2
  Driver = {d1}
  MaxProposals = 1
  REPLAN_ELIGIBLE_AT = 1
  FORCE_CONVERGE_AT = 2
  EPOCH_CONVERGE_AT = 2
  TASK_CONVERGE_AT = 3
  MAX_REPLAN_PER_TASK = 1
  Signals = {"BLOCKING_ISSUE", "REPLAN_REQUIRED", "NEW_INPUT"}
INVARIANTS
  RowReadable
  CloseIsSafe
PROPERTIES
  ConvergenceHolds
CHECK_DEADLOCK FALSE
