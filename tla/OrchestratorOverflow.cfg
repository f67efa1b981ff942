SPECIFICATION Spec
CONSTANTS
  c1 = c1
  c2 = c2
  k1 = k1
  k2 = k2
  NoCall = NoCall
  Calls = {}
  Keys = {k1}
  FirstKeys = {k1}
  CacheTtl = 1
  LongestPause = 1
  Latency = 0
  FloatExponent = 1024
  MaxFailures = 1025
INVARIANTS
  PublisherSurvives
CHECK_DEADLOCK FALSE
