CONSTANTS
  ann = ann  a1 = a1  NoOne = NoOne
  Watched = {"ops", "ops_admin", "finance", "manager", "hr", "operator", "analytics"}
  Audience <- AudienceDef
  Things = {1, 2}
  WithData <- WithDataDef
  MaxLoads = 2  MaxTaps = 2  MaxFaults = 1
SPECIFICATION Spec
INVARIANTS ScreenAgrees SavedOnce ToldIsDone NothingDropped ConsoleWorks
CHECK_DEADLOCK FALSE
