SPECIFICATION Spec
CONSTANTS
  Riders = {"r1"}
  NoRider = "nobody"
  Stops = {"s1"}
  Parcels <- MCParcels
  Requests = {q1, q2}
  MaxCount = 2
  MaxRaces = 1
  MaxFaults = 1
INVARIANTS
  StopCountedOnce
  CountsAgree
PROPERTIES
  ClosedIsLocked
SYMMETRY MCSymmetry
CHECK_DEADLOCK FALSE
