SPECIFICATION FairSpec
CONSTANTS
  x1 = x1
  x2 = x2
  Exec = {x1, x2}
  Materials <- MCMaterials
  Outputs <- MCOutputs
  Catalog <- MCCatalog
  Source <- MCSource
  NoRow = NoRow
INVARIANTS
  NothingUnsupported
  CompleteIsEarned
PROPERTIES
  ImplementsEpisode
  EverySynthesisEnds
CHECK_DEADLOCK FALSE
