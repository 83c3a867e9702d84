SPECIFICATION Spec
CONSTANTS
  Timeout = 30
  PingTimeout = 3
  Pause = 1
  Grace = 10
  MaxRequests = 3
CHECK_DEADLOCK FALSE
INVARIANTS
  TypeOK
  GivesUpInTime
PROPERTIES
  ConnectsOrExits
  CutOnlyAfterGrace
  SignalStops
