SPECIFICATION OutboxFairSpec
CONSTANTS
  Notices = {n1, n2}
  NoNotice = none
  Dispatchers = {d1, d2}
  MaxAttempts = 3
  MaxFaults = 2
INVARIANTS
  OneSender
  SendsWithinAttempts
PROPERTIES
  NoticesSettle
CHECK_DEADLOCK FALSE
