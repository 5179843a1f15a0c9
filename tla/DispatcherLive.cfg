SPECIFICATION FairSpec
CONSTANTS
  h1 = h1
  h2 = h2
  Experiment = {e1, e2}
  Host = {h1}
  Target <- SharedHost
  MaxStreams = 1
  ChanCap = 1
  MaxHalts = 0
  MayCancel = FALSE
  MayHeal = TRUE
INVARIANTS RecordsSound
PROPERTIES ExperimentsResolve
CHECK_DEADLOCK FALSE
