SPECIFICATION Spec
CONSTANTS
  Operators = {o1, o2}
  Vehicles = {v1}
  NoVehicle = none
  Sites = {"h1", "h2"}
  Beds <- MCBeds
  Requests = {q1, q2}
  Hires <- MCHires
  Bodies <- MCBodies
SYMMETRY Symmetry
CONSTRAINT Slice
INVARIANTS
  HeldByOne
  BedsSuffice
  PlacedUnlessDied
CHECK_DEADLOCK FALSE
