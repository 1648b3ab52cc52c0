SPECIFICATION FairSpec
CONSTANTS
  Point = {p1, p2}
  NoPoint = NoPoint
  K = 3
  Modes <- MCModes
  MaxRank = 2
  Factor = 1
  Probes = FALSE
INVARIANTS TypeOK AnswersAreFresh NeverRefused
PROPERTIES NoSecondSolve EveryCallReturns
