SPECIFICATION LiveSpec
CONSTANTS
  Sources <- MCSources
  Names = {"x", "y", "i"}
  MAX_FUNCS = 1
  Bound = 20
INVARIANTS TypeOK NestedInOrder NeverSilentlyWrong PlainIsAccepted
PROPERTIES LexedAsWritten Ends
CHECK_DEADLOCK FALSE
