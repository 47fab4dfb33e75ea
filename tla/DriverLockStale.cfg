SPECIFICATION Spec
CONSTANTS
  Pid = {p1, p2}
  NoPid = NoPid
  Absent = Absent
  Empty = Empty
  AcquireTries = 2
  ReleaseTries = 1
  Faults <- Reliable
INVARIANTS
  StaleLockReclaimed
