SPECIFICATION Spec
CONSTANTS
  base = base
  f1 = f1
  f2 = f2
  Base = base
  Functions = {f1, f2}
  Link <- Chain
  Times <- MCTimes
  Lowest <- MCLowest
  Highest <- MCHighest
  Limits <- MCLimits
  Shift = 0
  Files <- MCFiles
  MaxSamples = 4
  MaxCreated = 3
  MaxReplots = 2
CHECK_DEADLOCK FALSE
INVARIANTS
  OnceEach
  MirrorsSource
  CaughtUp
  CurveShowsAll
