SPECIFICATION FairSpec
CONSTANTS
  Manifests = {m1, m2}
  Supported = {m1}
  NoManifest = NoManifest
  Size = 2
  MaxRedirects = 2
  MaxOrphans = 2
CHECK_DEADLOCK FALSE
INVARIANTS
  LaunchedIsVerified
  BusyStateIsTrue
  DownloadCancellable
  DialogsBounded
PROPERTIES
  RequestsEnd
