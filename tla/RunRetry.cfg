SPECIFICATION Spec
CONSTANTS
  Nobody = nobody
  Workers = {{l1, l2}}
  Loops = {l1, l2}
  MaxTries = 1
  MaxAttempt = 2
  Keys = {"k"}
  Faults = {"gateway_reap"}
SYMMETRY LoopSymmetry
INVARIANTS AnswerFitsQuestion OutcomeExplained
PROPERTIES AnswersKept MeetsContract
