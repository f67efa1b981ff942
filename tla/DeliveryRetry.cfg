SPECIFICATION Spec
CONSTANTS
  h1 = h1
  h2 = h2
  w1 = w1
  w2 = w2
  m1 = m1
  m2 = m2
  NoWorker = NoWorker
  NoMessage = NoMessage
  Workers = {w1}
  Handlers = {h1, h2}
  WorkerOf <- OneProcess
  Messages = {m1}
  MaxAttempts = 2
  MaxDeliver = 3
  CodesWorkers = {w1}
  CommentWorkers = {w1}
  Fallible = {w1}
  ReliableAdvisories = TRUE
  MaxRestarts = 0
  MaxEdits = 0
INVARIANTS
  CodesFollowTheEvidence
  VerdictMatchesAttempts
PROPERTIES
  ProgressImplemented
SYMMETRY SwapSlots
CHECK_DEADLOCK FALSE
