SPECIFICATION Spec
CONSTANTS
  Tasks = {t1, t2, t3}
  Instances = {i1, i2, i3}
  MaxConcurrentPerInstance = 1
  MaxConcurrentGlobal = 2
  ApprovalTimeout = 1
  ChosenLevels = {2, 3}
  Horizon = 2
SYMMETRY Symmetry
INVARIANTS
  TypeOK
  SlotLimits
  StatusFitsGate
PROPERTIES
  DecisionStands
  ImplementsSlots
CHECK_DEADLOCK FALSE
