SPECIFICATION Spec
CONSTANTS
  Nobody = nobody
  Workers = {{l1}}
  Loops = {l1}
  MaxTries = 2
  MaxAttempt = 1
  Keys = {"k"}
  Faults = {"runtime_error"}
INVARIANT TokenAccepted
