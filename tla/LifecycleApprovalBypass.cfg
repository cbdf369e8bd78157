SPECIFICATION Spec
CONSTANTS
  Apps = {a1}
  Jobs = {j1}
  Handlers = {h1}
  MaxMoves = 8
  None = None
CONSTRAINT ShortLogs
INVARIANT ApprovalReviewsPacket
