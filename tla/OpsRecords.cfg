CONSTANTS
  Requests = {q1, q2}
  Focuses <- FocusesDef
  MaxStarts = 3
  MaxRestarts = 1
  Costs <- CostsDef
  NoCost = 0
  Days <- DaysDef
  Forever = 99
  Figures <- FiguresDef
  Shares <- SharesDef
  Whole = 2
  LastRevision = 4
SPECIFICATION RecordsSpec
SYMMETRY Twins
CHECK_DEADLOCK FALSE
INVARIANTS
  HalfDoneByDeathsOnly
  ApprovedAsSeen
  NothingTwice
PROPERTIES
  StatusesMoveForward
  NamedFieldsOnly
  FiguresAreTraced
  ClosedPeriodIsFixed
