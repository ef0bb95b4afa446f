SPECIFICATION FairSpec
CONSTANTS
  d1 = d1
  d2 = d2
  Devices = {d1, d2}
  Requests = {r1, r2}
  Hints <- MCHints
  Docs <- MCDocs
  TTL = 2
  RenderMax = 2
  Empty = Empty
  NoOne = NoOne
  NoFrame = NoFrame
  NoJob = NoJob
INVARIANTS
  TypeOK
  SizesPositive
  RightDevice
  ServedFresh
PROPERTIES
  CallsEnd
CHECK_DEADLOCK FALSE
