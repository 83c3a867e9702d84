SPECIFICATION Spec
CONSTANTS
  Seats = {s1, s2}
  Time = {0, 1, 2}
  MaxBookings = 2
INVARIANT ReportAddsUp
