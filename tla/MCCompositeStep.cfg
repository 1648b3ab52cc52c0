SPECIFICATION FairSpec
CONSTANTS
  Key = {k1}
  Val = {v1, v2, v3}
  NoVal = NoVal
  Storage = TRUE
  InnerStores = TRUE
  MaxIter = 2
  MaxPasses = 3
  MaxTries = 3
INVARIANTS TypeOK StaleOnlyWhenRepeated
PROPERTIES AcceptsTheTrial Terminates
CHECK_DEADLOCK FALSE
