SPECIFICATION Spec
CONSTANTS
  user = user
  doc = doc
  notes = notes
  T1 = T1
  T2 = T2
  None = None
  DataBlocks = {5, 6, 7, 8, 9, 10}
  NInodes = 5
  NDirect = 2
  Slots = 2
  PerSector = 2
  QuickSectors = 2
  Names = {user, doc, notes}
  DefDirs <- MCDefDirs
  NotesName = notes
  NotesLen = 5
  Texts = {T1}
  Lens = {1, 5}
  TextWord = 99
  MaxCmds = 5
  MaxCuts = 0
INVARIANT ListedIsUsed
CHECK_DEADLOCK FALSE
