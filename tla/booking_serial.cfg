\* One request at a time, none of which dies, and a view beside it.
SPECIFICATION ViewSpec
CONSTANTS
  c1 = c1
  Users = {u1}
  DeviceUsers = {u1}
  Seats = {s1}
  Workers = {w1}
  Names = {n1, n2}
  NoName = NoName
  StudentName = StudentName
  LeadTime = 1
  MaxLimit = 2
  Store = "postgres"
  Faults = FALSE
  Horizon = 3
  MaxBookings = 2
  Coworkings <- OneCoworking
  CoworkingOf <- AllInOne
SYMMETRY Interchangeable
INVARIANTS
  ViewTypeOK
  BusyWasBusy
  FreeWasFree
  NameTracksLatest
PROPERTIES
  BookingLimitEnforced
  ActiveSeatAtInsert
  TerminalStatusFinal
