SPECIFICATION FairCollectionSpec
CONSTANTS
  Instances = {i1, i2}
  Runs = {k1}
  LastTick = 0
  MaxWork = 0
  MaxResets = 0
  MaxSamples = 2
  SlowTargets = {i2}
PROPERTY OthersAreSampled
CHECK_DEADLOCK FALSE
