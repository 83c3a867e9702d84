\* Every call of the test store, from every state the schema allows.
SPECIFICATION Spec
CONSTANTS
  Emails = {a, b}
  Names = {m, n}
  Devices = {d}
  NoDevice = NoDevice
  Tokens = {t}
  CoworkingNames = {x, y}
  n1 = n1
  n2 = n2
  SeatForms <- Forms
  Windows <- TouchingWindows
  Limits = {1, 0}
  InOrder = {"ListCoworkings"}
  MaxId <- LastIds
CONSTRAINT SchemaHolds
VIEW Tables
SYMMETRY Interchangeable
INVARIANT IndexesAgree
PROPERTY MirrorsPostgres
