SPECIFICATION FairSpec
CONSTANTS
  Nobody = Nobody
  NoRow = NoRow
  Workers = {{l1, l2}, {l3}}
  Loops = {l1, l2, l3}
  MaxTries = 2
  Rows = {1, 2}
  DKeys = {"d", "e"}
INVARIANTS OneLivePerKey
PROPERTIES LeaseIsFenced JobsFinish
CHECK_DEADLOCK FALSE
