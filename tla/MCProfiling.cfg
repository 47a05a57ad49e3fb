\* Two places for events of a kind, a cutoff of one tick.
CONSTANTS
  n1 = n1
  n2 = n2
  s1 = s1
  s2 = s2
  v1 = v1
  v2 = v2
  Name = {n1}
  Session = {s1, s2}
  View = {v1, v2}
  NoView = NoView
  NoSession = NoSession
  MaxEventsPerKind = 2
  Cutoff = 1
  Occurrence <- Places
  MaxBus = 2
  MaxEvents = 3
  MaxUpdates = 2
  MaxStarts = 2
  MaxClock = 2
VIEW Granted
SPECIFICATION Spec
INVARIANTS Orderly AgreeAtRest RecordsUnderConsent EachOnce
PROPERTIES SnapshotComplete
CHECK_DEADLOCK FALSE
