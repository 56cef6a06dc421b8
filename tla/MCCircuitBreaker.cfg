CONSTANTS
  a = a
  r1 = r1
  r2 = r2
  Modules = {a}
  Runs = {r1, r2}
  Plans <- Single
  ManifestThreshold <- ThresholdOf
  ManifestEnabled <- EnabledOf
  Thresholds = {1}
  NoOverride = NoOverride
  MaxFailures = 4
  MaxRestarts = 1
SYMMETRY RunSymmetry
SPECIFICATION Spec
INVARIANTS
  OpenAtTheThreshold
  TripsAreAnnounced
  GateIsTight
PROPERTY OpenUntilReset
