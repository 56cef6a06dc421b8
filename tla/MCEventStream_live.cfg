CONSTANTS
  Readers = {c1}
  Kinds = {"step", "end"}
  MaxStreams = 2
  MaxEvents = 2
  MaxLives = 1
  GiveUpAfter = 5
  MaxDrops = 1
SPECIFICATION FairSSpec
PROPERTIES
  EveryWatchEnds
  EndReachesThePage
  ImplementsFeed
CHECK_DEADLOCK FALSE
