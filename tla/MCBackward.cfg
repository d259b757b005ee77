SPECIFICATION Spec
CONSTANTS
  Vars <- MCVars
  MaxCopies = 2
  RestoreAll = 0
  RestoreFlush = FALSE
  ElimBoundMax = 1
  Starts <- MCStarts
  Inputs = {}
  Questions = {}
  Freezable = {}
  MaxCalls = 0
  MaxLearned = 0
  MaxStarts = 1
INVARIANT AnswerChecked
