SPECIFICATION Spec
CONSTANTS
  CoworkingNames = {a, b}
  n1 = n1
  n2 = n2
  c1 = c1
  c2 = c2
  Forms <- SeatForms
  Workers = {w1, w2}
  Faults = TRUE
  MaxCoworkings = 2
  MaxSeats = 2
SYMMETRY Interchangeable
INVARIANTS
  TypeOK
  PlacesUnique
  NothingDangles
PROPERTIES
  SeatIdentity
  ImplementsFloorPlan
