SPECIFICATION Spec
CONSTANTS
  Refs <- MCRefs
  Events = {"e1"}
  Webhooks = {"w1"}
  Verifies = {"v1"}
  Settles = {"s1"}
  Approvals = {"a1"}
  Reconciles = {"c1"}
  Closes = {"p1"}
  RefOf <- MCRefOf
  EventOf <- MCEventOf
  WindowOf <- MCWindowOf
  Mapped <- MCRefs
  Assigned <- MCRefs
  Simulated = TRUE
  MaxInFlight = 2
  MayRestart = TRUE
  MaxFaults = 1
  MaxReports = 1
  MaxCredits = 2
INVARIANTS
  ReportsAreBacked
PROPERTIES
  ImplementsLifecycle
CHECK_DEADLOCK FALSE
