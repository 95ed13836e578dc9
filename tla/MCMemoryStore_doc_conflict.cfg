SPECIFICATION MemorySpec
CONSTANTS
  w1 = w1
  w2 = w2
  Writer = {w1}
  Proposals <- MCConflict
  Corrections <- MCCorrections
  Recalls <- MCRecalls
  Accounts = {"o1"}
  MaxRecords = 3
  MaxEdited = 0
INVARIANTS
  ConflictIsShown
CHECK_DEADLOCK FALSE
