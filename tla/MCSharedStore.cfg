SPECIFICATION SharedSpec
CONSTANTS
  Key = {k1}
  Val = {p1, p2, p3}
  NoVal = NoVal
  CompleteTrials = TRUE
  NumCon = 1
INVARIANTS UpdatedHere ImageIsCurrent
PROPERTIES MappedOnce
SYMMETRY Symmetry
