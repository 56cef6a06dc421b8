CONSTANTS
  Readers = {c1}
  Kinds = {"step", "end"}
  MaxStreams = 2
  MaxEvents = 2
  MaxLives = 2
  GiveUpAfter = 5
  MaxDrops = 1
SPECIFICATION SSpec
INVARIANTS
  STypeOK
  NoLostWakeup
  ShownIsThePrefix
CHECK_DEADLOCK FALSE
