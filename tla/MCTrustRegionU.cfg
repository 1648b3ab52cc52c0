SPECIFICATION Spec
CONSTANTS
  Key = {k1}
  Val = {p1, p2, p3}
  NoVal = NoVal
  Storage = TRUE
  InnerStores = TRUE
  Values = {0, 1, 2, 98, 99}
  Hessians = {"exact", "fd"}
  Problems <- MCProblems
  PRed = {1, 2, 99}
  Inf <- MCInf
  NaN <- MCNaN
  Eta0 = 5
  MaxIter = 4
INVARIANTS TypeOK AnswersAreFresh KeepsProtocol IterateAgrees
PROPERTIES NoSolveAfterDecision Descent ReferenceNeverRises
SYMMETRY Symmetry
CHECK_DEADLOCK FALSE
