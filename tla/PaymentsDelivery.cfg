SPECIFICATION FairSpec
CONSTANTS
  Refs <- MCRefs
  Events = {"e1", "e2"}
  Webhooks = {"w1", "w2"}
  Verifies = {"v1"}
  Settles = {}
  Approvals = {}
  Reconciles = {}
  Closes = {}
  RefOf <- MCRefOf
  EventOf <- MCEventOf
  WindowOf <- MCWindowOf
  Mapped <- MCRefs
  Assigned <- MCRefs
  Simulated = FALSE
  MaxInFlight = 2
  MayRestart = TRUE
  MaxFaults = 1
  MaxReports = 0
  MaxCredits = 2
INVARIANTS
  DeliveredIsBooked
  DeliveredIsCredited
PROPERTIES
  DepositsReachOps
CHECK_DEADLOCK FALSE
