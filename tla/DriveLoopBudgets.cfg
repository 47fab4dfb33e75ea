SPECIFICATION FairSpec
CONSTANTS
  Modes = {"run", "chat"}
  make = make
  secret = secret
  none = none
  e1 = e1
  Commands = {}
  Denied = {}
  HooksOn = FALSE
  Gated = TRUE
  NoCheck = none
  Checks = {none}
  IterLimits = {1, 2}
  MinuteLimits = {1, 2}
  MaxTokens = 3
  Usages = {0, 2}
  WarnIters = 1
  WarnMinutes = 1
  WarnTokens = 1
  MaxFree = 1
  Errors = {}
  MaxCalls = 1
  MaxUpdates = 1
  MaxHistory = 5
  Images = FALSE
INVARIANTS
  CallsBounded
  StopsInTime
  WarnedOncePerKind
PROPERTIES
  Terminates
CHECK_DEADLOCK FALSE
