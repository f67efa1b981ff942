SPECIFICATION Spec
CONSTANTS
  c1 = c1
  c2 = c2
  c3 = c3
  positions = positions
  release = release
  prompt = prompt
  NoCall = NoCall
  r1 = r1
  r2 = r2
  Calls = {c1, c2}
  Resets = {}
  Controls = {positions}
  ReleaseOf <- OneRelease
  PromptOf <- OnePrompt
  Second = 4
  RebuildLease = 5
  RebuildWait = 6
  PollInterval = 2
  AnswerTime = 0
  MaxEdits = 0
INVARIANTS
  WaitOutlivesLease
SYMMETRY CallSymmetry
CHECK_DEADLOCK FALSE
