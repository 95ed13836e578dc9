SPECIFICATION FairSpec
CONSTANTS
  r1 = r1
  r2 = r2
  c1 = c1
  c2 = c2
  h1 = h1
  h2 = h2
  NoOne = NoOne
  Run = {r1, r2}
  Call = {c1, c2}
  Hop = {h1, h2}
  Reserved = 1
  MaxUsage = 2
  MaxFaults = 1
INVARIANTS
  SentOnceAsApproved
  LedgerBalances
PROPERTIES
  CallsEnd
  ImplementsEgress
