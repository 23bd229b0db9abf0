SPECIFICATION Spec
CONSTANTS
  Nobody = nobody
  Workers = {{l1, l2}}
  Loops = {l1, l2}
  MaxTries = 2
  MaxAttempt = 1
  Keys = {"k"}
  Faults = {"exit", "crash", "lapse", "runtime_error", "busy_row"}
SYMMETRY LoopSymmetry
INVARIANTS TypeOK InputsMatchRun StopsOnlyEnded
PROPERTIES OutcomeIsFinal
