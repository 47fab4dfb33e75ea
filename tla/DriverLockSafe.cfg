SPECIFICATION Spec
CONSTANTS
  Pid = {p1, p2, p3}
  NoPid = NoPid
  Absent = Absent
  Empty = Empty
  AcquireTries = 2
  ReleaseTries = 2
  Faults <- Reliable
SYMMETRY Symmetry
INVARIANTS
  HolderOwnsLock
PROPERTIES
  OnlyOwnRelease
  ImplementsMutex
