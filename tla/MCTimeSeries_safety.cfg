CONSTANTS
  Times <- MCTimes
  Values <- MCValues
  NaN = NaN
  Lowest <- MCLowest
  Highest <- MCHighest
  Limits <- MCLimits
  Files <- MCFiles
  MaxReceived = 4
  MaxLoaded = 6
SPECIFICATION Spec
CHECK_DEADLOCK FALSE
INVARIANTS
  SortedInWindow
  NothingLost
  RangesTrue
  NearestSample
