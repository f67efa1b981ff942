SPECIFICATION Spec
CONSTANTS
  r1 = r1
  r2 = r2
  r3 = r3
  NoRequest = NoRequest
  Requests = {r1, r2, r3}
  KindOf <- OneOfEach
  MaxTokens = 3
  MaxAged = 1
INVARIANTS
  TokensShared
  WrittenOnce
CHECK_DEADLOCK FALSE
