SPECIFICATION FairSpec
CONSTANTS
  h1 = h1
  h2 = h2
  w1 = w1
  w2 = w2
  m1 = m1
  m2 = m2
  NoWorker = NoWorker
  NoMessage = NoMessage
  Workers = {w1, w2}
  Handlers = {h1, h2}
  WorkerOf <- DistinctWorkers
  Messages = {m1}
  MaxAttempts = 1
  MaxDeliver = 2
  CodesWorkers = {}
  CommentWorkers = {}
  Fallible = {w1}
  ReliableAdvisories = TRUE
  MaxRestarts = 1
  MaxEdits = 0
PROPERTIES
  EventuallyDecided
  StreamDrains
CHECK_DEADLOCK FALSE
