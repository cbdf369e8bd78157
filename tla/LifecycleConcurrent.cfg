SPECIFICATION Spec
CONSTANTS
  Apps = {a1, a2}
  Jobs = {j1}
  Handlers = {h1, h2}
  MaxMoves = 7
  None = None
CONSTRAINT ShortLogs
SYMMETRY Identical
INVARIANTS
  TypeOK
  MovesAreGrounded
  StopFollowsApproval
  ResumeVersionsContiguous
  PacketNamesLatestResume
  OneActiveApplication
PROPERTY RecordsContinue
