SPECIFICATION Spec
CONSTANTS
  c1 = c1
  c2 = c2
  k1 = k1
  k2 = k2
  NoCall = NoCall
  Calls = {c1, c2}
  Keys = {k1, k2}
  FirstKeys = {k1}
  CacheTtl = 2
  LongestPause = 1
  Latency = 1
  FloatExponent = 1024
  MaxFailures = 1
INVARIANTS
  ClosedAfterUse
PROPERTIES
  WithdrawnKeysExpire
  NewKeysAreSeen
SYMMETRY SwapCalls
CHECK_DEADLOCK FALSE
