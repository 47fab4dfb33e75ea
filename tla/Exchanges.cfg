\* Each peer has bounds of its own.
SPECIFICATION Spec
CONSTANTS
  Blocks = 2  Pieces = 2  Attempts = 3  Completes = 2
  HttpCalls = 3  HttpEvents = 3
  StdioCap = 1  StdioCalls = 4  StdioLines = 3  ReadsAlways = TRUE
  Chunks = 3  Room = 2
  n1 = n1  n2 = n2  Notes = {n1, n2}  Drivers = {"run", "chat"}  NoFile = NoFile
  MaxStarts = 2  ReadErrors = TRUE
  Events = 5  ChannelCap = 2  BatchSize = 2
INVARIANTS
  ReplyIsWhole HttpOnce OwnAnswer ResultHonest
  NothingQueuedIsLost SaidOnceInOrder FlushedInOrder
PROPERTIES
  HttpEnds CallReturns CommandReturns Drained ExitNotStalled
CHECK_DEADLOCK FALSE
