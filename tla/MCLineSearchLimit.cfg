SPECIFICATION SearchSpec
CONSTANTS
  Key = {k1}
  Val = {p1, p2, p3}
  NoVal = NoVal
  Storage = TRUE
  InnerStores = TRUE
  Values = {0, 1, 2}
  Searches = {"Cubic"}
  Descents = {"Quasi-Newton"}
  Curvatures = {"Wolfe"}
  Functions <- MCFunctions
  Options <- Default
  Maxit = 3
  MaxIter = 3
INVARIANT AnswersAreFresh
SYMMETRY Symmetry
CHECK_DEADLOCK FALSE
