SPECIFICATION FairSpec
CONSTANTS
  Enqueuers = {e1}
  Workers = {w1, w2}
  Completers = {c1}
  Triggers = {t1, t2}
  NoTrigger = none
  MaxAttempts = 2
  MaxRuns = 2
  MaxOutside = 1
  MaxFaults = 1
INVARIANTS
  OneHolder
  LostByDeathsOnly
PROPERTIES
  RunsSettle
CHECK_DEADLOCK FALSE
