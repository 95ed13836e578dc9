SPECIFICATION PartsSpec
CONSTANTS
  e1 = z1
  e2 = z2
  e3 = e3
  u1 = u1
  u2 = u2
  k1 = y1
  k2 = y2
  v1 = v1
  v2 = v2
  v3 = v3
  q1 = x1
  q2 = x2
  q3 = q3
  Unset = Unset
  Exec = {z1, z2, e3}
  Actor = {u1, u2}
  Key = {y1, y2}
  Conversation = {v1, v2, v3}
  OwnerOf <- MCOwnerOf
  Content = {x1, x2, q3}
  Refused = {q3}
  MaxLosses = 1
  s1 = y1
  s2 = y2
  a1 = z1
  a2 = z2
  p1 = x1
  p2 = x2
  g1 = g1
  g2 = g2
  i1 = i1
  i2 = i2
  i3 = i3
  None = None
  Supervisor = {y1, y2}
  GoalAttempt = {z1, z2}
  PlanAttempt = {x1, x2}
  Goal = {g1, g2}
  Blocking = {g2}
  Item = {i1, i2, i3}
  Draft <- MCDrafts
  MaxFaults = 1
  c1 = z1
  c2 = z2
  Caller = {z1, z2}
  Invalidator = {c3}
  c3 = c3
  Requests <- MCRequests
  ContentHash = {"h1", "h2", "h3", "h4", "h5", "h6", "h7", "h8", "h9", "h10", "h11"}
  NoPack = NoPack
  w1 = y1
  w2 = y2
  Writer = {y1, y2}
  Proposals <- MCProposals
  Corrections <- MCCorrections
  Recalls <- MCRecalls
  Accounts = {"o1", "o2"}
  Documents <- MCDocuments
  parent_max_tokens = 4
  child_max_tokens = 3
  overlap_tokens = 1
  Chunk = {1, 2, 3}
  TextHash = {"x", "y", "z"}
  Recalled <- MCRecalled
  rrf_k = 1
  Unit = 12
  Absent = Absent
  MaxRecords = 3
  MaxEdited = 1
SYMMETRY MCSymmetry
INVARIANTS
  AnswersNameTheTask
  MessagesInOrder
  RowsAgree
  QuestionExcludesPlan
  ActivePlanCanFinish
  ConsumedIsStored
  PackIsWithinBudget
  ContradictionIsMarked
  RecallIsAsDefined
  EveryBlockIsIndexed
  ChunksAreBounded
  BestIsKept
PROPERTIES
  ConflictIsRetryable
  ReplayAccepted
  ConsumedStaysConsumed
CHECK_DEADLOCK FALSE
