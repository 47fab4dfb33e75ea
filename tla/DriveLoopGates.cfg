SPECIFICATION Spec
CONSTANTS
  Modes = {"run", "plan"}
  make = make
  secret = secret
  none = none
  e1 = e1
  Commands = {make, secret}
  Denied = {secret}
  HooksOn = TRUE
  Gated = TRUE
  NoCheck = none
  Checks = {none, make, secret}
  IterLimits = {2}
  MinuteLimits = {1}
  MaxTokens = 0
  Usages = {0}
  WarnIters = 1
  WarnMinutes = 1
  WarnTokens = 1
  MaxFree = 1
  Errors = {e1}
  MaxCalls = 2
  MaxUpdates = 0
  MaxHistory = 20
  Images = TRUE
INVARIANTS
  SuccessIsEarned
PROPERTIES
  ImagesStayOut
CHECK_DEADLOCK FALSE
