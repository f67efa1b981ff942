SPECIFICATION Spec
CONSTANTS
  c1 = c1
  c2 = c2
  NoCall = NoCall
  Calls = {c1, c2}
  ModelLimit = 3
  ToolLimit = 5
  FixerLimit = 2
INVARIANTS
  StatementsWithinBudget
  RowsAreTheCallsOwn
  NothingMissing
