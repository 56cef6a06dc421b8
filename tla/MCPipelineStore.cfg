CONSTANTS
  Clients = {c1, c2}
  Slugs <- TheSlugs
  Names <- TheNames
  SlugOf <- TheSlugOf
  Schedules = {k1}
  MaxBodies = 2
  MaxRequests = 6
  MaxCrashes = 1
SPECIFICATION Spec
SYMMETRY ClientsAreAlike
INVARIANTS FiledUnderItsName NothingIsLost
PROPERTY RenameTakesEverything
CHECK_DEADLOCK FALSE
CONSTRAINT NotRaced
