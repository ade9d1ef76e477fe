SPECIFICATION FairSpec
CONSTANTS
  Topics = {t1, t2}
  Filter = Filter
  Protocols = {json, proto}
  NoProtocol = NoProtocol
  MaxMessages = 2
  MaxFaults = 1
CHECK_DEADLOCK FALSE
INVARIANTS
  SessionsApart
  NoOrphanThread
PROPERTIES
  IsDataStreamer
  GuiReturns
  DataShown
