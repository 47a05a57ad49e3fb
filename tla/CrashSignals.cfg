\* Two threads, two of the five signals, a third fault while two are handled.
CONSTANTS
  Thread = {t1, t2}
  Initialiser = t1
  Signal = {segv, bus}
  MaxFaults = 3
SPECIFICATION Spec
INVARIANT PreviousHandlerHears
CHECK_DEADLOCK FALSE
