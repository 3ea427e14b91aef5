SPECIFICATION FairSpec
CONSTANTS
  f = f
  g = g
  Files = {f, g}
  Addrs = {1, 2}
  Others = TRUE
  Races = {}
PROPERTY OpenReturns
INVARIANTS StartsBalanced CountIsOpeners OpenPortServed RegionHeld RemovedIsQuiet
CHECK_DEADLOCK FALSE
