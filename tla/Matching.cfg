SPECIFICATION Spec
CONSTANTS
  Requests = {r1, r2}
  Jobs = {j1, j2}
  Times = {1, 2}
  Contents = {old, new}
  Profiles = {p1}
  MaxVersion = 2
  Settings = {open}
  Default = open
  Tokens = {a, b, c}
  Types = {full, part}
  Missing = Missing
  None = None
INVARIANTS
  TypeOK
  CreatedOnce
  AnswersAreTrue
  QuietRefreshIsComplete
  DeadlockNeedsATie
SYMMETRY Identical
CHECK_DEADLOCK FALSE
