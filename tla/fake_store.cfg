\* The store of the unit tests, with two requests in flight.
SPECIFICATION Spec
CONSTANTS
  c1 = c1
  Users = {u1}
  DeviceUsers = {}
  Seats = {s1}
  Workers = {w1, w2}
  Names = {}
  NoName = NoName
  StudentName = StudentName
  LeadTime = 1
  MaxLimit = 2
  Store = "fake"
  Faults = FALSE
  Horizon = 2
  MaxBookings = 2
  Coworkings <- OneCoworking
  CoworkingOf <- AllInOne
INVARIANT NoDoubleBooking
