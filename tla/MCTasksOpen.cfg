SPECIFICATION Spec
CONSTANTS
  MAX_TASKS = 4
  NPages = 6
  StatePages = 2
INVARIANT StateInItsBlock
CHECK_DEADLOCK FALSE
