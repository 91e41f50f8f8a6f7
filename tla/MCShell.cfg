SPECIFICATION LiveSpec
CONSTANTS
  NoChar = NoChar
  map_lower <- MCLower
  map_upper <- MCUpper
  Fifo = 5
  Cols = 4
  Rows = 3
  MaxNotes = 1
  NameLen = 1
  ContentLen = 1
  MaxLogs = 2
  Chars <- MCChars
  Units <- MCUnits
  Home <- pm
  Sectors <- MCSectors
  Contents <- MCContents
  BufSize = 10
  MaxArgs = 4
  CommandOf <- MCCommandOf
  AllWord <- MCAllWord
  Prompt <- MCPrompt
  CatLines = 3
  Drives <- MCDrives
  PlayUnit <- ps
  Chunks = 1
  Scripts <- MCScripts
INVARIANTS TypeOK CursorInArea RanAsMeant LineOnScreen NotesOnDisk TransferAsAsked LogIsLatest
CHECK_DEADLOCK FALSE
PROPERTY PromptReturns
