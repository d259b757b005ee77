SPECIFICATION Spec
CONSTANTS
  Vars <- MCVars
  Starts <- MCStarts
  Inputs <- MCInputs
  Questions <- MCQuestions
  Constraints <- MCConstraints
  MaxCalls = 1
  MaxReductions = 1
  MaxTerminates = 1
INVARIANTS WatchedFirst NothingMissed TrailSound LearnedImplied CoreRefutes
PROPERTIES KeepsPromise AnswersComeBack
