SPECIFICATION FairSpec
CONSTANTS
  Topics = {t1}
  Filter = Filter
  Protocols = {json}
  NoProtocol = NoProtocol
  MaxMessages = 1
  MaxFaults = 0
CHECK_DEADLOCK FALSE
PROPERTIES
  ShutdownReturns
