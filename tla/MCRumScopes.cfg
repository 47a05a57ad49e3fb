\* Two view keys in two slots, the clock standing still, ticking or jumping
\* past the inactivity timeout between calls; two ticks exceed the duration.
CONSTANTS
  ViewKeys = {v1, v2}
  ResourceKeys = {r1}
  DiscreteLifetime = 1
  ContinuousLifetime = 2
  Capacity = 2
  InactivityTimeout = 3
  MaxDuration = 3
  MaxTTID = 3
  MaxTTFD = 5
  Sampling = {TRUE, FALSE}
  Gaps = {0, 2, 3}
  MaxCommands = 6
  MaxWaits = 2
SYMMETRY Keys
VIEW Scopes
SPECIFICATION Spec
INVARIANTS ViewsAgree CrashesFindTheirView
PROPERTIES OnCurrentView WithinLimits Finalised ReportedInOrder
CHECK_DEADLOCK FALSE
