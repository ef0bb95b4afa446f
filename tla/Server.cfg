SPECIFICATION FairSpec
CONSTANTS
  c1 = c1
  c2 = c2
  Clients = {c1, c2}
  Pngs <- MCPngs
  ModeNames <- MCModes
  ChunkBytes = {1}
  Streams <- MCStreams
  Uses <- MCUses
  Window = 1
  Budget = 2
  Polls = 1
  Memory = 8
  Half = 8
  Puller = Puller
  Main = Main
  ContentServer = FALSE
  EnableMDNS = TRUE
  NoOne = NoOne
  Torn = Torn
  Still = Still
  NoPng = NoPng
INVARIANTS
  TypeOK
  PushedIsShown
  OldTokenRefused
  AdvertisedIsServed
  MemoryIsWhole
PROPERTIES
  SignalExits
CHECK_DEADLOCK FALSE
