\* Three goroutines log at once into a ring of four slots.
SPECIFICATION Spec
CONSTANTS
  Writers = {w1, w2, w3}
  Events = {e1, e2}
  Cap = 4
  Unwritten = Unwritten
  Nothing = Nothing
  Horizon = 1
INVARIANT TypeOK
INVARIANT SnapshotIsPrefix
INVARIANT NearlyNewestFirst
PROPERTY ImplementsEventLog
PROPERTY OnlyRestartForgets
