SPECIFICATION FairSpec
CONSTANTS
  Tasks = {t1, t2}
  Minutes = {m}
  Listed = {s1, s0}
  Asked = {s1}
  Supported = {s1}
  Jobs = {j1, j2}
  Texts = {old, new}
  MaxAttempts = 2
  Known = s1
  Unknown = s0
  None = None
  BoardOf <- OneBoard
  Age <- UnknownFirst
INVARIANTS
  TypeOK
  OneExecutor
  RowsTellTheTruth
  LoneRunIsFresh
  RefreshSeesWork
PROPERTIES
  RunsEnd
  RunsOnce
