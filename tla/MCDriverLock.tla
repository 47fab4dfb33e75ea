---------------------------- MODULE MCDriverLock ----------------------------
(* Instances of DriverLock for TLC: a few pids, one environment per run.   *)
EXTENDS DriverLock, TLC

\* The environment T135 was written for: flock, ps and reads work, and no
\* section outlasts the budget; directories and files may be unwritable.
Reliable == {"mkdir", "write"}

\* Pids are interchangeable: nothing orders them.
Symmetry == Permutations(Pid)
=============================================================================
