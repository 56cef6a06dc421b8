CONSTANTS
  Keys <- TheKeys
  NoKey = NoKey
  Pipelines <- Ordinary
  PoolSize = 2
  Faults = {"seed", "output", "store"}
  Secrets = {"y"}
  Settable = {"a"}
  MaxSets = 1
SPECIFICATION FairSpec
INVARIANTS
  HistoryMatchesEvents
  VerdictMatches
  EveryStepAccountedFor
  StopMeansStop
  OutputsAreOnRecord
  StepRanOnItsInputs
PROPERTY RunEnds
CHECK_DEADLOCK FALSE
