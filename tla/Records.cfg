SPECIFICATION RecordsSpec
CONSTANTS
  Bodies <- TextOrReply
  Worlds <- RunsAndShared
  Keep = 2  MaxStarts = 3  MaxIds = 2  MaxLines = 6
  MaxMessages = 3  MaxTexts = 2  MaxCommands = 3  MaxSessions = 2  Odd = {}
  PerToken = 2  TrimAbove = 8  TrimTarget = 5  SegmentTokens = 3  KeepLast = 2
  MarkerSize = 2  Sizes = {2, 7}  MaxBatches = 3  MaxNotes = 1
  MaxCalls = 3  MaxOpened = 3
INVARIANTS
  RequestsPaired ResumeDerivesMemory ForkKeeps RestoresSlot CutsAreWhole TodosKept
PROPERTIES
  NothingLost KeepsJournal FrozenPrefix
CHECK_DEADLOCK FALSE
