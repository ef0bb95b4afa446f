SPECIFICATION Spec
CONSTANTS
  Servers = {s1}
  Devices = {d1}
  Frames = {f1, f2}
  Unpackable = {}
  HasDisplay = TRUE
  Empty = Empty
  Torn = Torn
  Still = Still
  NoReply = NoReply
  DefaultInterval = 60
  Intervals <- MCIntervals
  NextPolls <- MCNextPolls
  Limit <- MCSkipLimit
PROPERTY
  SkipsNeedlessRefresh
CHECK_DEADLOCK FALSE
