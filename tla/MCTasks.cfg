SPECIFICATION LiveSpec
CONSTANTS
  MAX_TASKS = 4
  NPages = 6
  StatePages = 2
INVARIANTS TypeOK SavedFrames StateClearsNoStack Acknowledged
PROPERTIES TurnsComeRound KeyRead KeyLineFreed
CHECK_DEADLOCK FALSE
