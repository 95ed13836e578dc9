SPECIFICATION FairSpec
CONSTANTS
  s1 = s1
  g1 = g1
  NoOne = NoOne
  NumAttempts = 1
  GoalAttempt = {1}
  PlanAttempt = {}
  MaxPerRun = 1
  StartPublisher = {s1}
  SignalPublisher = {g1}
  MaxAttempts = 1
  MaxFaults = 1
PROPERTIES
  CancelConverges
  DeadlineConverges
