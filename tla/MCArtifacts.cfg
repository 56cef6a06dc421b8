CONSTANTS
  Clients = {c1}
  Watcher = watcher
  Editors = {e1, e2}
  Stems = {"x"}
  Data <- TheData
  Half <- TheHalf
  Pdfs = {}
  Table <- TheTable
  Converted <- TheConversion
  Unreadable = unreadable
  unreadable = unreadable
  TooLarge = {huge}
  huge = huge
  garbage = garbage
  Trim <- White
  Empty = ""
  Nothing = nothing
  Given <- TheGiven
  a = a
  b = b
  Budgets <- TheBudgets
  MaxClock = 1
  Tags = {"t", "u"}
  Notes = {"n"}
  NoNote = ""
SPECIFICATION Spec
SYMMETRY AlikeEditors
INVARIANTS RefusedOnlyIfKept NotTwice TakenUpMeansIngested TablesAreClean AnnotationsFollow
PROPERTY NothingIsOverwritten
CHECK_DEADLOCK FALSE
CONSTRAINT NotBlurred
