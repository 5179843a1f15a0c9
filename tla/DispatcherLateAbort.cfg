SPECIFICATION Spec
CONSTANTS
  h1 = h1
  h2 = h2
  Experiment = {e1}
  Host = {h1, h2}
  Target <- TwoHosts
  MaxStreams = 2
  ChanCap = 1
  MaxHalts = 1
  MayCancel = FALSE
  MayHeal = TRUE
INVARIANTS KillSwitchStops
CHECK_DEADLOCK FALSE
