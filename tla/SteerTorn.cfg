\* Two senders, one of which may fail half way, and one loop; no read fails
\* unless what was written is at fault.
SPECIFICATION SteerSpec
CONSTANTS
  Notes = {n1, n2}  Drivers = {"run"}  NoFile = NoFile  MaxStarts = 1
  ReadErrors = FALSE
INVARIANTS
  JustThatLine
CHECK_DEADLOCK FALSE
