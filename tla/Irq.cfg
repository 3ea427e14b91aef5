SPECIFICATION FairSpec
CONSTANTS
  p1 = p1
  p2 = p2
  p3 = p3
  i1 = i1
  i2 = i2
  i3 = i3
  i4 = i4
  Ports = {p1, p2, p3}
  Infos = {i1, i2, i3, i4}
  PassLimit = 5
  MaxWork = 2
  MaxEvents = 3
  Anchored = TRUE
  BusyStop = FALSE
INVARIANTS ChainSound EdgeNotLost
PROPERTIES WorkIsDone
CHECK_DEADLOCK FALSE
