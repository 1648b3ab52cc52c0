SPECIFICATION BoundedSpec
CONSTANTS
  Key = {k1, k2}
  Val = {p1, p2, p3}
  NoVal = NoVal
  Storage = TRUE
  InnerStores = TRUE
  Prompt = TRUE
  MaxUpdates = 4
INVARIANTS TypeOK AnswersAreFresh
PROPERTIES OneSolvePerPoint
SYMMETRY Symmetry
