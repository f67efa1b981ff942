SPECIFICATION FairSpec
CONSTANTS
  p1 = p1
  p2 = p2
  NoPublisher = NoPublisher
  Events <- TwoEvents
  Publishers = {p1, p2}
  BatchSize <- OneAndTwo
  Doubtful <- FirstEvent
  Fallible = {p2}
  Timely <- SecondEvent
  MaxLate = 1
  MaxCopies = 2
INVARIANTS
  NoStaleBatch
  StoredOnce
PROPERTIES
  EventuallyPublished
  RelayImplemented
