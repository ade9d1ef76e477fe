SPECIFICATION FairSpec
CONSTANTS
  t1 = t1
  t2 = t2
  Topics = {t1, t2}
  NoTopic = NoTopic
  Shadows <- T1ShadowsT2
  PoolSize = 2
  AllowInsecure = TRUE
  MaxBlocks = 1
  MaxDownloads = 2
  MaxClients = 2
  MaxLists = 1
CHECK_DEADLOCK FALSE
INVARIANTS
  OneDownload
  WholeOrNothing
  ReportsDue
  ClientAlive
PROPERTIES
  DownloadSettles
  GuiReturns
