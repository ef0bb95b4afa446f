SPECIFICATION Spec
CONSTANTS
  Callers = {c1, c2}
  Main = main
  NoOne = NoOne
  NoFile = NoFile
  Missing = Missing
  Torn = Torn
  EnableMTLS = FALSE
  MaxGen = 3
  Limit <- MCLimit
SYMMETRY MCSymmetry
INVARIANTS
  TypeOK
  NoServerMaterialReturns
  ServerFilesSaved
PROPERTY
  IdentityKept
CHECK_DEADLOCK FALSE
