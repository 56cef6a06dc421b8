CONSTANTS
  Workers = {w1}
  Clients = {c1, c2}
  MaxRuns = 2
  MaxSteps = 2
  MaxSnapshots = 1
  MaxDeaths = 1
SPECIFICATION Spec
SYMMETRY Alike
INVARIANTS EveryStepHasItsRun StepsAreTheirRunsOwn FinishedRunsAreWhole PinsHaveTheirRun
