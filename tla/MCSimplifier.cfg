SPECIFICATION Spec
CONSTANTS
  Vars <- MCVars
  MaxCopies = 2
  RestoreAll = 0
  RestoreFlush = FALSE
  ElimBoundMax = 1
  Starts <- MCStarts
  Inputs <- MCInputs
  Questions <- MCQuestions
  Freezable <- MCFreezable
  MaxCalls = 1
  MaxLearned = 1
  MaxStarts = 1
INVARIANTS ModelsExtend ModelsKept NoClauseOfRemoved FrozenKept ProofAccepted
PROPERTY KeepsPromise
