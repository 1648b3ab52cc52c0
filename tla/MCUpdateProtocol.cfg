SPECIFICATION Spec
CONSTANTS
  Key = {k1, k2}
  Val = {p1, p2}
  NoVal = NoVal
  CompleteTrials = TRUE
INVARIANTS TypeOK Coherent NoStaleRead BrokenIsNotRetried
PROPERTIES NothingRecomputed ImplementsMemo
SYMMETRY Symmetry
CONSTRAINT FewTorn
