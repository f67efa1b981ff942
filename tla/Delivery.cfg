SPECIFICATION Spec
CONSTANTS
  h1 = h1
  h2 = h2
  w1 = w1
  w2 = w2
  m1 = m1
  m2 = m2
  NoWorker = NoWorker
  NoMessage = NoMessage
  Workers = {w1, w2}
  Handlers = {h1, h2}
  WorkerOf <- DistinctWorkers
  Messages = {m1}
  MaxAttempts = 1
  MaxDeliver = 2
  CodesWorkers = {w1, w2}
  CommentWorkers = {w1, w2}
  Fallible = {w1, w2}
  ReliableAdvisories = FALSE
  MaxRestarts = 1
  MaxEdits = 1
INVARIANTS
  OwnerSeesTheRow
  CodesWrittenOnce
  WrittenCodesAreReported
  NoWorkLost
  OwnershipConsistent
  RecordedWritesHappened
  OneCommentPerAttempt
PROPERTIES
  LifecycleImplemented
SYMMETRY Swap
CHECK_DEADLOCK FALSE
