\* Two requests at a time, two modules with one input, four seconds.
SPECIFICATION Spec
CONSTANTS
  Clients = {c1, c2}
  Modules = {m, n}
  Inputs = {i}
  Limits <- BothLimits
  Default <- OneASecond
  MaxAge = 1
  MaxClock = 3
  MaxAsks = 3
  MaxTurns = 1
INVARIANTS
  LimitIsOnRecord
  ReplayIsARecentSuccess
PROPERTIES
  AdmitsExactly
SYMMETRY AlikeClients
CHECK_DEADLOCK FALSE
