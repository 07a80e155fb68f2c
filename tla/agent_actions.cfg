SPECIFICATION Spec
CONSTANTS
  Calls = {c1, c2}
  Approvals = {a1, a2}
  Proposals <- SmallProposals
  ChosenLevels = {0, 2, 4}
  Faults = TRUE
SYMMETRY Symmetry
INVARIANTS
  TypeOK
  EffectsAuthorised
  ExecutedRowHasEffect
  RowAndAuditTogether
  PendingRowBehindTarget
  OneEffectPerGrant
PROPERTIES
  ImplementsLedger
CHECK_DEADLOCK FALSE
