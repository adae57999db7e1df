CONSTANTS
  ErrAdj = 1
  MaxTime = 2
  Scenario <- MCScenario
  Second = 1
  SeekMode = TRUE
  SeekPos <- MCSeekPos
SPECIFICATION LiveSpec
INVARIANTS TypeOK PausedIsQuiet
PROPERTIES PlaybackEnds CallsReturn
CHECK_DEADLOCK FALSE
