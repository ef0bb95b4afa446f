SPECIFICATION Spec
CONSTANTS
  Callers = {c1, c2}
  Main = main
  NoOne = NoOne
  NoFile = NoFile
  Missing = Missing
  Torn = Torn
  EnableMTLS = FALSE
  MaxGen = 2
  Limit <- MCNoFaults
SYMMETRY MCSymmetry
INVARIANT
  StoreServes
CHECK_DEADLOCK FALSE
