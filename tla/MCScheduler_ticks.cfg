SPECIFICATION Spec
CONSTANTS
  i1 = i1
  o1 = o1
  o2 = o2
  NoSchedule = NoSchedule
  d1 = d1
  w1 = w1
  Ids = {i1, o1, o2}
  Cadence <- MixedCadence
  Day = 2
  Week = 2
  Standard = 0
  Saving = 0
  Summer = {}
  MaxNow = 2
  MaxRestarts = 1
  MaxFaults = 0
INVARIANT OneLateFire
PROPERTY FiresApart
CONSTRAINT Room
SYMMETRY OncePair
