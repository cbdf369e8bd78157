SPECIFICATION Spec
CONSTANTS
  Handlers = {h1, h2, h3}
  Attempts = 3
  MaxRows = 5
CONSTRAINT FewRows
INVARIANTS
  TypeOK
  RefusalsArePaid
PROPERTY IsALog
