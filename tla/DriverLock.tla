----------------------------- MODULE DriverLock -----------------------------
(***************************************************************************)
(* src/src/driver_lock.rs: the `.chug/driver.lock` protocol by which two   *)
(* `chug run`s in one working directory exclude each other.                *)
(*                                                                         *)
(* A pid is a slot of the kernel's process table.  It is free, or it is    *)
(* some process that takes no part in the protocol, or it is a run at one  *)
(* of the steps of acquire_with or of Guard::drop.  Every system call that *)
(* another process can slip in front of is a step of its own.  A run can   *)
(* be killed at any step (destructors do not run, the kernel drops its     *)
(* flock) and its pid can be used again by anything.                       *)
(***************************************************************************)
EXTENDS Naturals, FiniteSets

CONSTANTS Pid,           \* process identifiers
          NoPid,         \* no process
          Absent,        \* there is no driver.lock
          Empty,         \* driver.lock is there, line 1 is not a pid
          AcquireTries,  \* MUTEX_TRIES_ACQUIRE (300 in the code)
          ReleaseTries,  \* MUTEX_TRIES_RELEASE (50 in the code)
          Faults         \* what may go wrong in this environment

FaultKinds == {"mkdir",   \* .chug/ cannot be created
               "flock",   \* flock(2) unsupported, or .chug/ cannot be opened
               "budget",  \* another process sits on the flock for the whole budget
               "read",    \* driver.lock exists and cannot be read
               "write",   \* driver.lock cannot be opened or written
               "ps"}      \* ps is missing or fails

ASSUME ConstantsAssumption ==
    /\ {NoPid, Absent, Empty} \cap Pid = {}
    /\ Absent # Empty
    /\ AcquireTries \in Nat \ {0}
    /\ ReleaseTries \in Nat \ {0}
    /\ Faults \subseteq FaultKinds

VARIABLES pc,      \* pc[p]: what pid p is doing
          lock,    \* the contents of .chug/driver.lock
          flock,   \* the pid whose descriptor holds the flock on .chug/
          seen,    \* seen[p]: the contents p last read
          tries,   \* tries[p]: failed flock attempts in this dir_mutex call
          round    \* round[p]: the iteration of acquire_with's loop

vars == <<pc, lock, flock, seen, tries, round>>

-----------------------------------------------------------------------------
Rounds    == 3
Contents  == Pid \cup {Absent, Empty}
Bystander == {"other",    \* a process whose argv does not contain "chug"
              "chug"}     \* chat, or a run elsewhere: argv contains "chug"
Acquiring == {"lock", "read", "alive", "argv", "truncate", "write", "verify"}
Releasing == {"relock", "reread", "unlink"}
Run       == Acquiring \cup Releasing
             \cup {"start", "hold", "lockless", "refused", "exit"}

\* The runs whose Guard carries a path: they go on as the only driver.
Guarded(p) == pc[p] \in {"hold"} \cup Releasing
Holders == {p \in Pid : Guarded(p)}

\* The runs inside the section that dir_mutex is meant to protect.
InSection(p) == pc[p] \in (Acquiring \ {"lock"}) \cup {"reread", "unlink"}

TypeOK ==
    /\ pc \in [Pid -> Run \cup Bystander \cup {"none"}]
    /\ lock \in Contents
    /\ flock \in Pid \cup {NoPid}
    /\ seen \in [Pid -> Contents]
    /\ tries \in [Pid -> 0..(AcquireTries + ReleaseTries)]
    /\ round \in [Pid -> 1..Rounds]

Init ==
    /\ pc = [p \in Pid |-> "none"]
    /\ lock = Absent
    /\ flock = NoPid
    /\ seen = [p \in Pid |-> Absent]
    /\ tries = [p \in Pid |-> 0]
    /\ round = [p \in Pid |-> 1]

Goto(p, l) == pc' = [pc EXCEPT ![p] = l]

\* Dropping the mutex's File closes the descriptor, if there is one.
DropMutex(p) == flock' = IF flock = p THEN NoPid ELSE flock

\* p leaves its section (or dies) and what it had in memory is gone.
Forget(p) ==
    /\ seen' = [seen EXCEPT ![p] = Absent]
    /\ tries' = [tries EXCEPT ![p] = 0]
    /\ round' = [round EXCEPT ![p] = 1]

-----------------------------------------------------------------------------
(* The process table.                                                      *)

Start(p) ==
    /\ pc[p] = "none"
    /\ Goto(p, "start")
    /\ UNCHANGED <<lock, flock, seen, tries, round>>

\* Any other process may come to use a free pid, and end.
Reuse(p) ==
    /\ pc[p] = "none"
    /\ \E b \in Bystander : Goto(p, b)
    /\ UNCHANGED <<lock, flock, seen, tries, round>>

Leave(p) ==
    /\ pc[p] \in Bystander \cup {"refused", "lockless", "exit"}
    /\ Goto(p, "none")
    /\ Forget(p)
    /\ UNCHANGED <<lock, flock>>

\* SIGKILL: Guard::drop does not run; the kernel closes the flock.
Kill(p) ==
    /\ pc[p] \in Run
    /\ Goto(p, "none")
    /\ DropMutex(p)
    /\ Forget(p)
    /\ UNCHANGED lock

-----------------------------------------------------------------------------
(* acquire_with.                                                           *)

MakeDir(p) ==
    /\ pc[p] = "start"
    /\ \/ Goto(p, "lock")
       \/ "mkdir" \in Faults /\ Goto(p, "lockless")
    /\ UNCHANGED <<lock, flock, seen, tries, round>>

\* One LOCK_EX | LOCK_NB attempt of dir_mutex at pc `from', going on to `to'.
TakeMutex(p, from, to) ==
    /\ pc[p] = from
    /\ flock = NoPid
    /\ flock' = p
    /\ Goto(p, to)
    /\ tries' = [tries EXCEPT ![p] = 0]
    /\ UNCHANGED <<lock, seen, round>>

\* EWOULDBLOCK.  The budget is chosen so that no section lasts that long: it
\* runs out only where "budget" is one of the faults.
MutexBusy(p, from, to, budget) ==
    /\ pc[p] = from
    /\ flock # NoPid
    /\ IF tries[p] + 1 < budget
       THEN tries' = [tries EXCEPT ![p] = @ + 1] /\ UNCHANGED pc
       ELSE /\ "budget" \in Faults
            /\ tries' = [tries EXCEPT ![p] = 0]
            /\ Goto(p, to)
    /\ UNCHANGED <<lock, flock, seen, round>>

\* The mutex is unobtainable: go on without it.
NoMutex(p, from, to) ==
    /\ pc[p] = from
    /\ "flock" \in Faults
    /\ Goto(p, to)
    /\ tries' = [tries EXCEPT ![p] = 0]
    /\ UNCHANGED <<lock, flock, seen, round>>

dir_mutex(p, from, to, budget) ==
    \/ TakeMutex(p, from, to)
    \/ MutexBusy(p, from, to, budget)
    \/ NoMutex(p, from, to)

\* Slip: `let _ = dir_mutex(..)' drops the mutex where it was taken.
AcquireMutex_Dropped(p) ==
    /\ pc[p] = "lock"
    /\ Goto(p, "read")
    /\ UNCHANGED <<lock, flock, seen, tries, round>>

AcquireMutex(p) == dir_mutex(p, "lock", "read", AcquireTries)

\* What read_to_string(..).ok() may return; only a pid survives parsing.
Reads == {lock} \cup (IF "read" \in Faults THEN {Absent} ELSE {})

\* holder_status, first leg: no file, or no pid on line 1 of it.
ReadLock(p) ==
    /\ pc[p] = "read"
    /\ \E c \in Reads :
         /\ seen' = [seen EXCEPT ![p] = c]
         /\ Goto(p, IF c \in Pid THEN "alive" ELSE "truncate")
    /\ UNCHANGED <<lock, flock, tries, round>>

\* Slip: a probe that the kernel answers with EPERM counts as dead.
pid_alive_Eperm(p) ==
    /\ pc[p] = "alive"
    /\ \E l \in {"argv", "truncate"} :
          Goto(p, IF pc[seen[p]] # "none" THEN l ELSE "truncate")
    /\ UNCHANGED <<lock, flock, seen, tries, round>>

\* kill(pid, 0) on the pid that was read.
pid_alive(p) ==
    /\ pc[p] = "alive"
    /\ Goto(p, IF pc[seen[p]] # "none" THEN "argv" ELSE "truncate")
    /\ UNCHANGED <<lock, flock, seen, tries, round>>

\* ps on the pid that was read: Held refuses, anything else reclaims.
\* Slip: the argv is matched against "chug run" as typed by a supervisor.
NamesChug_Literal(q) == pc[q] \in Run \ {"hold"}

NamesChug(q) == pc[q] \in Run \cup {"chug"}

Refuse(p) ==
    /\ pc[p] = "argv"
    /\ NamesChug(seen[p])
    /\ Goto(p, "refused")
    /\ DropMutex(p)
    /\ UNCHANGED <<lock, seen, tries, round>>

Reclaim(p) ==
    /\ pc[p] = "argv"
    /\ ~NamesChug(seen[p]) \/ "ps" \in Faults
    /\ Goto(p, "truncate")
    /\ UNCHANGED <<lock, flock, seen, tries, round>>

\* The two system calls of fs::write: open with O_TRUNC, then write.
Truncate(p) ==
    /\ pc[p] = "truncate"
    /\ lock' = Empty
    /\ Goto(p, "write")
    /\ UNCHANGED <<flock, seen, tries, round>>

WritePid(p) ==
    /\ pc[p] = "write"
    /\ lock' = p
    /\ Goto(p, "verify")
    /\ UNCHANGED <<flock, seen, tries, round>>

\* Either call fails: run anyway, with a Guard that has no path.
WriteFails(p) ==
    /\ pc[p] \in {"truncate", "write"}
    /\ "write" \in Faults
    /\ Goto(p, "lockless")
    /\ DropMutex(p)
    /\ Forget(p)
    /\ UNCHANGED lock

\* Slip: the loop is a plain `loop'.
Verify_Loop(p) ==
    /\ pc[p] = "verify"
    /\ \E c \in Reads :
         \/ c = p /\ Goto(p, "hold") /\ DropMutex(p) /\ Forget(p)
         \/ c # p /\ Goto(p, "read") /\ UNCHANGED <<flock, seen, tries, round>>
    /\ UNCHANGED lock

\* Read after write.  Not ours: decide again, and after Rounds give up.
Verify(p) ==
    /\ pc[p] = "verify"
    /\ \E c \in Reads :
         \/ /\ c = p
            /\ Goto(p, "hold")
            /\ DropMutex(p)
            /\ Forget(p)
         \/ /\ c # p
            /\ round[p] < Rounds
            /\ round' = [round EXCEPT ![p] = @ + 1]
            /\ Goto(p, "read")
            /\ UNCHANGED <<flock, seen, tries>>
         \/ /\ c # p
            /\ round[p] = Rounds
            /\ Goto(p, "lockless")
            /\ DropMutex(p)
            /\ Forget(p)
    /\ UNCHANGED lock

-----------------------------------------------------------------------------
(* Guard::drop.                                                            *)

\* run_loop returns, whatever the outcome, and the Guard goes out of scope.
Return(p) ==
    /\ pc[p] = "hold"
    /\ Goto(p, "relock")
    /\ UNCHANGED <<lock, flock, seen, tries, round>>

ReleaseMutex(p) == dir_mutex(p, "relock", "reread", ReleaseTries)

\* Compare ...
Compare(p) ==
    /\ pc[p] = "reread"
    /\ \E c \in Reads :
         IF c = p
         THEN Goto(p, "unlink") /\ UNCHANGED flock
         ELSE Goto(p, "exit") /\ DropMutex(p)
    /\ UNCHANGED <<lock, seen, tries, round>>

\* ... then delete.
Unlink(p) ==
    /\ pc[p] = "unlink"
    /\ lock' = Absent
    /\ Goto(p, "exit")
    /\ DropMutex(p)
    /\ UNCHANGED <<seen, tries, round>>

-----------------------------------------------------------------------------
\* The steps a run takes by itself, once it has been started.
RunStep(p) ==
    \/ MakeDir(p) \/ AcquireMutex(p) \/ ReadLock(p) \/ pid_alive(p)
    \/ Refuse(p) \/ Reclaim(p) \/ Truncate(p) \/ WritePid(p)
    \/ WriteFails(p) \/ Verify(p)
    \/ ReleaseMutex(p) \/ Compare(p) \/ Unlink(p)

Next == \E p \in Pid :
    \/ Start(p) \/ Reuse(p) \/ Leave(p) \/ Kill(p) \/ Return(p)
    \/ RunStep(p)

Spec == Init /\ [][Next]_vars

\* The operating system schedules every run; nothing makes a run start, end,
\* be killed or have its pid used again.
FairSpec == Spec /\ \A p \in Pid : WF_vars(RunStep(p))

-----------------------------------------------------------------------------
(* Properties.                                                             *)

\* Two runs never go on side by side as the holder of driver.lock.  It takes
\* the flock over the whole of read, decide, write and verify, and the flock
\* over Guard::drop, and a reclaim only on a failed probe (T135).
MutualExclusion == \A p, q \in Holders : p = q

\* While a run holds the lock, the file names it: no starter that read an
\* older lock writes over it, no earlier holder's drop unlinks it, so that
\* the next starter is refused on this pid.
HolderOwnsLock == \A p \in Holders : lock = p

\* Why HolderOwnsLock is kept up: whoever acts on what it has read is alone
\* in the section, its reading is still true, and it has found no holder.
SectionIsExclusive == \A p \in Pid : InSection(p) => flock = p
SeenIsCurrent      == \A p \in Pid : pc[p] \in {"alive", "argv"}
                                     => seen[p] \in Pid /\ seen[p] = lock
ReclaimFindsNone   == \A p \in Pid : pc[p] \in {"truncate", "write", "verify"}
                                     => Holders = {}
VerifiesOwnPid     == \A p \in Pid : pc[p] = "verify" => lock = p

IInv == /\ TypeOK
        /\ SectionIsExclusive
        /\ SeenIsCurrent
        /\ ReclaimFindsNone
        /\ VerifiesOwnPid
        /\ HolderOwnsLock

\* The file that names a living holder is changed by that holder's own
\* release and by nothing else (the comment on Guard::drop: a lock that was
\* reclaimed and rewritten is never unlinked by the process it replaced).
OnlyOwnRelease ==
    [][\A p \in Holders : lock = p /\ lock' # p
          => pc[p] = "unlink" /\ pc'[p] = "exit"]_vars

\* The protocol implements the mutual exclusion that the rest of the harness
\* relies on: a run owns the directory from its successful verify until its
\* lock is unlinked or it is killed.
M == INSTANCE RunMutex WITH owners <- Holders
ImplementsMutex == M!Spec

\* Whatever fails, starting and stopping a run come to an end: the flock is
\* waited for within a budget and the decision is repeated Rounds times at
\* the most (T20: never hang).
NeverHangs ==
    \A p \in Pid : pc[p] \in Acquiring \cup Releasing
                     ~> pc[p] \notin Acquiring \cup Releasing

\* driver_lock.rs says of a lock left by SIGKILL that "the next acquirer
\* reclaims it via the dead-pid leg".  An acquirer that finds its own pid in
\* the file, before it has written any, has met such a lock.
StaleLockReclaimed == \A p \in Pid : pc[p] = "refused" => seen[p] # p
=============================================================================
