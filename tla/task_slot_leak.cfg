SPECIFICATION FairSpec
CONSTANTS
  Tasks = {t1, t2}
  Instances = {i1}
  MaxConcurrentPerInstance = 1
  MaxConcurrentGlobal = 3
  ApprovalTimeout = 1
  ChosenLevels = {3}
  Horizon = 3
PROPERTY
  SlotEventuallyFreed
CHECK_DEADLOCK FALSE
