SPECIFICATION Spec
CONSTANTS
  v1 = v1
  v2 = v2
  Key = {k1}
  Val = {v1, v2}
  NoVal = NoVal
  Storage = TRUE
  InnerStores = TRUE
  Sizes <- MCSizes
  RemovalSizes <- MCRemovalSizes
  Convexities = {TRUE, FALSE}
  SearchLimit = 2
  MaxIter = 2
  MaxRuns = 2
  Agg = Agg
SYMMETRY Points
INVARIANTS TypeOK NoOverrun ExactAtIterate FreshIfConvex
PROPERTIES RemovesOnlyVictims
CHECK_DEADLOCK FALSE
