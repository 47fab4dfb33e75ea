SPECIFICATION Spec
CONSTANTS
  Bodies <- TextOrReply
  Worlds <- BesideOnly
  Keep = 2
  MaxStarts = 3
  MaxIds = 2
  MaxLines = 5
INVARIANTS
  AppendsInterleaveHarmlessly
CHECK_DEADLOCK FALSE
