\* A timer, one request at a time, three seconds, one fault.
SPECIFICATION LiveSpec
CONSTANTS
  Callers = {c}
  Timer = t
  Intervals = {1}
  Keeps = {1, 2}
  Usual <- Off
  MaxClock = 2
  MaxAsks = 3
  MaxFaults = 1
INVARIANTS
  SafeMeansRestorable
  PinnedSurvives
PROPERTIES
  DueBackupsHappen
CHECK_DEADLOCK FALSE
