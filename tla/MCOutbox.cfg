SPECIFICATION FairSpec
CONSTANTS
  m1 = m1
  m2 = m2
  m3 = m3
  p1 = p1
  p2 = p2
  NoOne = NoOne
  Message = {m1, m2, m3}
  Invalid = {m3}
  Publisher = {p1, p2}
  MaxAttempts = 2
  BatchSize = 2
  MaxFaults = 1
PROPERTIES
  EverythingSettles
  ImplementsChannel
