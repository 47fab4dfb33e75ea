------------------------------ MODULE RunMutex ------------------------------
(***************************************************************************)
(* What .chug/driver.lock promises the rest of the harness: of all the     *)
(* `chug run` processes started in one working directory, at most one at a *)
(* time goes on believing that it alone appends to the shared transcript,  *)
(* event log and ledger.  The owner gives the directory up by returning or *)
(* by being killed; nobody takes it from a living owner.                   *)
(***************************************************************************)
CONSTANT Pid                      \* the process identifiers of the machine

VARIABLE owners                   \* the runs that own the working directory

TypeOK == owners \subseteq Pid

Init == owners = {}

Acquire(p) == owners = {} /\ owners' = {p}

Release(p) == p \in owners /\ owners' = owners \ {p}

Next == \E p \in Pid : Acquire(p) \/ Release(p)

Spec == Init /\ [][Next]_owners
=============================================================================
