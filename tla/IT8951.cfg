SPECIFICATION Spec
CONSTANTS
  Callers = {p1, p2}
  Frames = {f1, f2}
  Odd = {f2}
  Torn = Torn
  None = None
  NoOne = NoOne
INVARIANTS
  TypeOK
  WordsExpected
  RefreshShows
PROPERTIES
  ImplementsDisplay
  CallsReturn
