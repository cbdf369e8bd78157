SPECIFICATION Spec
CONSTANTS
  Runs = {r1, r2}
  Tokens = {t1, t2}
  Pages = {p1}
  Workers = {w1, w2}
  Clerks = {c1}
  MaxClicks = 2
  None = None
CONSTRAINT FewClicks
INVARIANT SubmittedOnce
CHECK_DEADLOCK FALSE
