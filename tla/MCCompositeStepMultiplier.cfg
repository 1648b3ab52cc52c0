SPECIFICATION Spec
CONSTANTS
  Key = {k1}
  Val = {v1, v2, v3}
  NoVal = NoVal
  Storage = TRUE
  InnerStores = TRUE
  MaxIter = 2
  MaxPasses = 3
  MaxTries = 3
INVARIANT AdjointOfMultiplier
CHECK_DEADLOCK FALSE
