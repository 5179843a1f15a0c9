SPECIFICATION FairSpec
CONSTANTS
  h1 = h1
  Host = {h1, h2}
  Target <- OneInstance
  MaxTrouble = 3
  MaxKeys = 1
INVARIANTS ExitTellsTruth ViewSound
PROPERTIES CommandsEnd ShownCatchesUp
CHECK_DEADLOCK FALSE
