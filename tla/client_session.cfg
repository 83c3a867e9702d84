\* People who click on, and answers in any order.
SPECIFICATION Spec
CONSTANTS
  Student = Student
  Admins = {boss}
  Others = {guest}
  Nobody = Nobody
  Coworkings = {c1, c2}
  Windows = {x1, x2}
  NoWindow = NoWindow
  NoMap = NoMap
  Loading = Loading
  Failed = Failed
  MaxCalls = 3
INVARIANTS
  TypeOK
  AdminScreenHasAdminToken
  MapIsOfSelection
  StudentSeesOwnBookings
PROPERTY LoadingEnds
