SPECIFICATION Spec
CONSTANTS
  Runs = {r1}
  Tokens = {t1}
  Pages = {p1}
  Workers = {w1}
  Clerks = {c1}
  MaxClicks = 2
  None = None
CONSTRAINT FewClicks
INVARIANT TokenDrivesOneClick
CHECK_DEADLOCK FALSE
