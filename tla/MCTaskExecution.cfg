SPECIFICATION Spec
CONSTANTS
  s1 = s1
  g1 = g1
  NoOne = NoOne
  NumAttempts = 2
  GoalAttempt = {1}
  PlanAttempt = {2}
  MaxPerRun = 1
  StartPublisher = {s1}
  SignalPublisher = {g1}
  MaxAttempts = 1
  MaxFaults = 1
INVARIANTS
  NoPlanAfterCancel
  PublishedSignalIsSeen
  NoOrphanWithoutFault
PROPERTIES
  ImplementsLifecycle
