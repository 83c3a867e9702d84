SPECIFICATION Spec
CONSTANTS
  Addresses <- AllAddresses
  Typed <- PeopleAndDerived
  Normal <- Folded
  AdminAddress = "boss"
  Passwords = {p, q}
  NoPassword = NoPassword
  D = D
  e = e
  Devices = {D, e}
  NoDevice = NoDevice
  DeviceAddress <- DeviceAddresses
  Routes <- OneOfEachKind
  Workers = {w1, w2}
  TTL = 1
  Faults = TRUE
  Horizon = 2
  MaxUsers = 3
  MaxSessions = 2
SYMMETRY Interchangeable
INVARIANTS
  TypeOK
  DeviceKeepsItsUser
  OneAccountPerAddress
  AdmittedRightly
PROPERTY RefusedOnlyByRace
