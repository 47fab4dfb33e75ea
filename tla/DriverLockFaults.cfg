SPECIFICATION FairSpec
CONSTANTS
  Pid = {p1, p2}
  NoPid = NoPid
  Absent = Absent
  Empty = Empty
  AcquireTries = 2
  ReleaseTries = 1
  Faults <- FaultKinds
PROPERTIES
  NeverHangs
