SPECIFICATION FairSpec
CONSTANTS
  HOUR = 2
  hours = 2
  Averages = {1, 2, 3}
  Skew = 1
  TipHeight = 5
  MaxTimestamp = 5
  Chains <- MCChains
INVARIANTS
  TypeOK
  StartCoversDuration
  StartIsTight
  OneRequestPerStride
PROPERTIES
  SearchEnds
