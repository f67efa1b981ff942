SPECIFICATION FairProcess
CONSTANTS
  Slots = {1, 2}
  MaxPerInstance = 2
  MinInflight = 1
  InitialTarget = 1
  Steps = {1}
  MinSamples = 2
  Stable = 10
  Decrease = 40
  Break = 60
  Factor = 50
  LlmAttempts = 2
  Cooldown = 1
  RetryAfters <- TwoSeconds
  MaxSamples = 2
  MaxBlind = 1
INVARIANTS
  Bounded
  CooldownHolds
  NothingAbandoned
  ResourcesOutlast
PROPERTIES
  StopIsObeyed
  TargetRecovers
CHECK_DEADLOCK FALSE
