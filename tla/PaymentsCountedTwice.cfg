SPECIFICATION Spec
CONSTANTS
  Refs <- MCRefs
  Events = {}
  Webhooks = {}
  Verifies = {"v1"}
  Settles = {}
  Approvals = {}
  Reconciles = {}
  Closes = {}
  RefOf <- MCRefOf
  EventOf <- MCEventOf
  WindowOf <- MCWindowOf
  Mapped <- MCRefs
  Assigned <- MCRefs
  Simulated = FALSE
  MaxInFlight = 1
  MayRestart = FALSE
  MaxFaults = 0
  MaxReports = 0
  MaxCredits = 2
INVARIANT CountedOnce
CHECK_DEADLOCK FALSE
