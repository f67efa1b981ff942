SPECIFICATION Spec
CONSTANTS
  c1 = c1
  c2 = c2
  c3 = c3
  positions = positions
  release = release
  prompt = prompt
  NoCall = NoCall
  r1 = r1
  r2 = r2
  Calls = {c1, c2}
  Resets = {r1}
  Controls = {positions}
  ReleaseOf <- OneRelease
  PromptOf <- OnePrompt
  Second = 2
  RebuildLease = 1
  RebuildWait = 3
  PollInterval = 2
  AnswerTime = 1
  MaxEdits = 1
INVARIANTS
  FreshContext
  WaitOutlivesLease
PROPERTIES
  AgreementImplemented
SYMMETRY CallSymmetry
CHECK_DEADLOCK FALSE
