SPECIFICATION FairSpec
CONSTANTS
  r1 = r1
  r2 = r2
  r3 = r3
  x1 = x1
  x2 = x2
  NoRow = NoRow
  Requests = {r1, r2, r3}
  Exceptions = {x1, x2}
  Filtered = {r3}
  Input <- MixedInput
  PageSize = 2
  MaxExceptions = 2
  Unreadable = {x2}
INVARIANTS
  FilteredSkipsHistory
  AttachedOnce
  AcceptedIsComplete
PROPERTIES
  LedgerImplemented
  RequestsEnd
  AnswersSettle
CHECK_DEADLOCK FALSE
