SPECIFICATION FairSpec
CONSTANTS
  Nobody = nobody
  Workers = {{l1}}
  Loops = {l1}
  MaxTries = 2
  MaxAttempt = 1
  Keys = {"k"}
  Faults = {"crash", "lapse", "runtime_error"}
PROPERTIES RunEnds CancelSettles
