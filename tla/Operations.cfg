\* Each part has bounds of its own.
SPECIFICATION Spec
CONSTANTS
  MaxRuns = 2  MaxIters = 1  MaxServers = 2
  s1 = s1  s2 = s2  Supervisors = {s1, s2}  Nobody = Nobody  MaxLoops = 4  MaxEdits = 1
  c1 = c1  c2 = c2  Clients = {c1, c2}  d1 = d1  d2 = d2  Daemons = {d1, d2}  NoOne = NoOne
  Rounds = 1  Lifetime = 2  MaxStops = 1
INVARIANTS AbortTruthful OneDaemon LatchHasCause StopStops
PROPERTIES AbortStops WaitWakes StopLands CallsReturn
CHECK_DEADLOCK FALSE
