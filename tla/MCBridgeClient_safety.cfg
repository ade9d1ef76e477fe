SPECIFICATION FairSpec
CONSTANTS
  t1 = t1
  t2 = t2
  Topics = {t1, t2}
  MaxCommands = 5
  MaxConnections = 2
  MaxFrames = 2
CHECK_DEADLOCK FALSE
INVARIANTS
  ReplyDue
  StreamAgreed
PROPERTIES
  IsDataStreamer
  RequestSettles
