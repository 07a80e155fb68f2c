SPECIFICATION Spec
CONSTANTS
  Calls = {c1}
  Approvals = {a1, a2}
  Proposals <- KillOnly
  ChosenLevels = {0, 2, 4}
  Faults = FALSE
PROPERTY
  ApprovedOnlyWhilePending
CHECK_DEADLOCK FALSE
