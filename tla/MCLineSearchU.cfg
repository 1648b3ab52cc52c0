SPECIFICATION SearchSpec
CONSTANTS
  Key = {k1}
  Val = {p1, p2, p3}
  NoVal = NoVal
  Storage = TRUE
  InnerStores = TRUE
  Values = {0, 1, 2}
  Searches = {"Backtracking", "Cubic", "Scaling", "Path"}
  Descents = {"Quasi-Newton", "Newton-Krylov", "Steepest Descent", "Nonlinear CG"}
  Curvatures = {"Wolfe", "Goldstein", "Null"}
  Functions <- MCFunctions
  Options <- NoMinimizer
  Maxit = 3
  MaxIter = 3
PROPERTIES TrialAnswersAreFresh TrialsKeepProtocol NoAscent
SYMMETRY Symmetry
CHECK_DEADLOCK FALSE
