SPECIFICATION Spec
CONSTANTS
  n1 = n1
  n2 = n2
  n3 = n3
  g1 = g1
  Names <- MCNames
  Groups <- MCGroups
  Resets = {FALSE}
  MixedForms = FALSE
  EditsLists = FALSE
  MaxCount = 3
SYMMETRY Symmetric
INVARIANTS TypeOK RecordsAgree BuiltAsStated GivenAsStated
CHECK_DEADLOCK FALSE
