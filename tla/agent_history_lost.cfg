SPECIFICATION Spec
CONSTANTS
  Calls = {c1}
  Approvals = {}
  Proposals <- KillOnly
  ChosenLevels = {0, 2, 4}
  Faults = FALSE
INVARIANT
  HistoryKept
CHECK_DEADLOCK FALSE
