CONSTANTS
  Contents <- MCGood
  MaxEdits = 2
  MaxSignals = 0
  MaxFailures = 0
SPECIFICATION ProcSpec
PROPERTY FileIsFollowed
CHECK_DEADLOCK FALSE
