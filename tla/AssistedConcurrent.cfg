SPECIFICATION Spec
CONSTANTS
  Runs = {r1, r2}
  Handlers = {h1, h2}
  PlanLength = 3
  MaxSteps = 2
  MaxRecords = 4
  None = None
CONSTRAINT FewRecords
SYMMETRY Identical
INVARIANTS
  TypeOK
  NoSkippedField
  StopIsComplete
  OneReceipt
  DeliveriesAreComplete
  RecordsFollowPlan
CHECK_DEADLOCK FALSE
