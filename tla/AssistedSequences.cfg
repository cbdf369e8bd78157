SPECIFICATION Spec
CONSTANTS
  Runs = {r1}
  Handlers = {h1}
  PlanLength = 3
  MaxSteps = 2
  MaxRecords = 4
  None = None
CONSTRAINT FewRecords
INVARIANT StepsAreOrdered
CHECK_DEADLOCK FALSE
