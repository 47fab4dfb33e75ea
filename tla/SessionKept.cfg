SPECIFICATION Spec
CONSTANTS
  Bodies <- TextOrReply
  Worlds <- ChatsOnly
  Keep = 1
  MaxStarts = 3
  MaxIds = 2
  MaxLines = 6
PROPERTIES
  NothingLost
CHECK_DEADLOCK FALSE
