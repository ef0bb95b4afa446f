SPECIFICATION Spec
CONSTANTS
  Callers = {c1, c2}
  Main = main
  NoOne = NoOne
  NoFile = NoFile
  Missing = Missing
  Torn = Torn
  EnableMTLS = FALSE
  MaxGen = 3
  Limit <- MCNoFaults
SYMMETRY MCSymmetry
INVARIANT
  RotateReplacesAll
CHECK_DEADLOCK FALSE
