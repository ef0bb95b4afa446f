SPECIFICATION Spec
CONSTANTS
  c1 = c1
  c2 = c2
  Clients = {c1, c2}
  Pngs = {}
  ModeNames = {}
  ChunkBytes = {1}
  Streams = {}
  Uses <- MCRotates
  Window = 1
  Budget = 2
  Polls = 0
  Memory = 0
  Half = 8
  Puller = Puller
  Main = Main
  ContentServer = FALSE
  EnableMDNS = FALSE
  NoOne = NoOne
  Torn = Torn
  Still = Still
  NoPng = NoPng
INVARIANTS
  StopStops
CHECK_DEADLOCK FALSE
