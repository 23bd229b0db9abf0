SPECIFICATION Spec
CONSTANTS
  Nobody = nobody
  Workers = {{l1}}
  Loops = {l1}
  MaxTries = 2
  MaxAttempt = 1
  Keys = {"k"}
  Faults = {"crash", "gateway_reap"}
INVARIANT DeadJobsSettle
