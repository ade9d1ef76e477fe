SPECIFICATION FairSpec
CONSTANTS
  Updaters = {u1, u2}
  Versions = {1, 2, 3}
  Absent = Absent
  Broken = Broken
  Altered = Altered
  NoOne = NoOne
  Faults <- AllFaults
CHECK_DEADLOCK FALSE
INVARIANTS
  RootIsRelease
  ProvenCopyRemains
PROPERTIES
  ExitCodesAreTrue
  IsAtomicUpdate
  UpdaterTerminates
