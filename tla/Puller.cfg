SPECIFICATION Spec
CONSTANTS
  Servers = {s1}
  Devices = {d1, d2}
  Frames = {f1, f2, f3}
  Unpackable = {f3}
  HasDisplay = TRUE
  Empty = Empty
  Torn = Torn
  Still = Still
  NoReply = NoReply
  DefaultInterval = 60
  Intervals <- MCIntervals
  NextPolls <- MCNextPolls
  Limit <- MCLimit
SYMMETRY MCSymmetry
INVARIANTS
  TypeOK
  EnabledIsRunnable
  AtMostOneLateWrite
  HashTracksPanel
CHECK_DEADLOCK FALSE
