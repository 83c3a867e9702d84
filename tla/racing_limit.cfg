\* Two requests in flight: the count and the insert are two statements.
SPECIFICATION Spec
CONSTANTS
  c1 = c1
  Users = {u1}
  DeviceUsers = {}
  Seats = {s1, s2}
  Workers = {w1, w2}
  Names = {}
  NoName = NoName
  StudentName = StudentName
  LeadTime = 1
  MaxLimit = 1
  Store = "postgres"
  Faults = FALSE
  Horizon = 2
  MaxBookings = 2
  Coworkings <- OneCoworking
  CoworkingOf <- AllInOne
PROPERTY BookingLimitEnforced
