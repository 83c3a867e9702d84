\* Two requests in flight, one seat, every request may die half-way.
SPECIFICATION Spec
CONSTANTS
  c1 = c1
  Users = {u1, u2}
  DeviceUsers = {u1, u2}
  Seats = {s1}
  Workers = {w1, w2}
  Names = {n1}
  NoName = NoName
  StudentName = StudentName
  LeadTime = 1
  MaxLimit = 1
  Store = "postgres"
  Faults = TRUE
  Horizon = 3
  MaxBookings = 3
  Coworkings <- OneCoworking
  CoworkingOf <- AllInOne
CONSTRAINT OneNamed
SYMMETRY Interchangeable
INVARIANT TypeOK
INVARIANT NoDoubleBooking
INVARIANT BookedSeatExists
INVARIANT OvershootBounded
PROPERTY ImplementsCalendar
