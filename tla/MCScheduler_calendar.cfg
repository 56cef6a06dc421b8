SPECIFICATION FairSpec
CONSTANTS
  i1 = i1
  o1 = o1
  o2 = o2
  NoSchedule = NoSchedule
  d1 = d1
  w1 = w1
  Ids = {d1, w1}
  Cadence <- CalendarCadence
  Day = 3
  Week = 2
  Standard = 1
  Saving = 1
  Summer = {1, 2}
  MaxNow = 3
  MaxRestarts = 0
  MaxFaults = 1
INVARIANT NextIsTheFirst
PROPERTY DueSchedulesFire
