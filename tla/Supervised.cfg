SPECIFICATION Spec
CONSTANTS
  Runs = {r1}
  Tokens = {t1, t2}
  Pages = {p1, p2}
  Workers = {w1, w2}
  Clerks = {c1, c2}
  MaxClicks = 2
  None = None
CONSTRAINT FewClicks
SYMMETRY Identical
INVARIANTS
  TypeOK
  ClicksWereReviewed
  OneClickPerCommit
  SubmittedIsReal
PROPERTY ConsumedTokenIsDead
CHECK_DEADLOCK FALSE
