-------------------------- MODULE DriverLockProofs --------------------------
(***************************************************************************)
(* Proofs about DriverLock, for any set of pids and any budgets.           *)
(* TypeCorrect holds in every environment.  The others assume one in which *)
(* flock, ps and reads of driver.lock work and no section outlasts the     *)
(* budget for the mutex (LockWorks); .chug/ and driver.lock may still be   *)
(* impossible to create or write, and a write may stop half way.           *)
(***************************************************************************)
EXTENDS DriverLock, TLAPS

LockWorks == Faults \cap {"flock", "budget", "read", "ps"} = {}

-----------------------------------------------------------------------------
LEMMA InitTypeOK == Init => TypeOK
  BY ConstantsAssumption DEF Init, TypeOK, Contents, Rounds

LEMMA NextTypeOK == TypeOK /\ [Next]_vars => TypeOK'
<1> SUFFICES ASSUME TypeOK, [Next]_vars PROVE TypeOK'
  OBVIOUS
<1> USE ConstantsAssumption DEF TypeOK, Contents, Rounds, Goto, Forget,
        DropMutex, Run, Acquiring, Releasing, Bystander
<1>1. CASE UNCHANGED vars
  BY <1>1 DEF vars
<1>2. ASSUME NEW p \in Pid, Start(p) \/ Reuse(p) \/ Leave(p) \/ Kill(p) \/ Return(p)
      PROVE  TypeOK'
  BY <1>2 DEF Start, Reuse, Leave, Kill, Return
<1>3. ASSUME NEW p \in Pid, MakeDir(p) \/ Refuse(p) \/ Reclaim(p) \/ pid_alive(p)
      PROVE  TypeOK'
  BY <1>3 DEF MakeDir, Refuse, Reclaim, pid_alive
<1>4. ASSUME NEW p \in Pid, NEW from, NEW to \in {"read", "reread"},
             NEW budget \in {AcquireTries, ReleaseTries},
             dir_mutex(p, from, to, budget)
      PROVE  TypeOK'
  <2>1. CASE TakeMutex(p, from, to)
    BY <1>4, <2>1 DEF TakeMutex
  <2>2. CASE MutexBusy(p, from, to, budget)
    BY <1>4, <2>2 DEF MutexBusy
  <2>3. CASE NoMutex(p, from, to)
    BY <1>4, <2>3 DEF NoMutex
  <2> QED
    BY <1>4, <2>1, <2>2, <2>3 DEF dir_mutex
<1>5. ASSUME NEW p \in Pid, ReadLock(p) \/ Compare(p)
      PROVE  TypeOK'
  BY <1>5 DEF ReadLock, Compare, Reads
<1>6. ASSUME NEW p \in Pid, Truncate(p) \/ WritePid(p) \/ WriteFails(p) \/ Unlink(p)
      PROVE  TypeOK'
  BY <1>6 DEF Truncate, WritePid, WriteFails, Unlink
<1>7. ASSUME NEW p \in Pid, Verify(p)
      PROVE  TypeOK'
  BY <1>7 DEF Verify, Reads
<1> QED
  BY <1>1, <1>2, <1>3, <1>4, <1>5, <1>6, <1>7
     DEF Next, RunStep, AcquireMutex, ReleaseMutex

\* Every variable of the lock protocol keeps its type, whatever fails: the
\* pids, the contents of driver.lock and the bounded counters of dir_mutex
\* and of acquire_with's loop.
THEOREM TypeCorrect == Spec => []TypeOK
  BY InitTypeOK, NextTypeOK, PTL DEF Spec

-----------------------------------------------------------------------------
LEMMA InitIInv == Init => IInv
<1> SUFFICES ASSUME Init PROVE IInv
  OBVIOUS
<1> USE DEF Init
<1>1. TypeOK
  BY InitTypeOK
<1>2. Holders = {}
  BY DEF Holders, Guarded, Releasing
<1>3. SectionIsExclusive /\ SeenIsCurrent /\ ReclaimFindsNone /\ VerifiesOwnPid
  BY DEF SectionIsExclusive, SeenIsCurrent, ReclaimFindsNone, VerifiesOwnPid,
         InSection, Acquiring
<1> QED
  BY <1>1, <1>2, <1>3 DEF IInv, HolderOwnsLock

\* A step that leaves driver.lock and what was read of it alone, puts nobody
\* into the section who does not have the flock, and makes nobody a holder,
\* disturbs nothing.
LEMMA QuietStep ==
  ASSUME IInv, NEW p \in Pid, NEW l, pc' = [pc EXCEPT ![p] = l],
         l \notin {"alive", "argv", "truncate", "write", "verify"},
         l \in {"hold"} \cup Releasing => p \in Holders,
         l \in {"read", "reread", "unlink"} => flock' = p,
         \A q \in Pid \ {p} : flock = q => flock' = q,
         \A q \in Pid \ {p} : seen'[q] = seen[q],
         lock' = lock, TypeOK'
  PROVE  IInv'
<1> USE DEF IInv, TypeOK
<1>1. \A q \in Pid \ {p} : pc'[q] = pc[q]
  OBVIOUS
<1>2. pc'[p] = l
  OBVIOUS
<1>3. Holders' \subseteq Holders
  BY <1>1, <1>2 DEF Holders, Guarded
<1>4. SectionIsExclusive'
  BY <1>1, <1>2 DEF SectionIsExclusive, InSection, Acquiring
<1>5. SeenIsCurrent'
  BY <1>1, <1>2 DEF SeenIsCurrent
<1>6. ReclaimFindsNone'
  BY <1>1, <1>2, <1>3 DEF ReclaimFindsNone
<1>7. VerifiesOwnPid'
  BY <1>1, <1>2 DEF VerifiesOwnPid
<1>8. HolderOwnsLock'
  BY <1>3 DEF HolderOwnsLock
<1> QED
  BY <1>4, <1>5, <1>6, <1>7, <1>8

-----------------------------------------------------------------------------
LEMMA NextIInv == ASSUME LockWorks PROVE IInv /\ [Next]_vars => IInv'
<1> SUFFICES ASSUME IInv, [Next]_vars PROVE IInv'
  OBVIOUS
<1> USE DEF LockWorks
<1> TypeOK /\ TypeOK'
  BY NextTypeOK DEF IInv
<1>1. CASE UNCHANGED vars
  <2> USE <1>1 DEF vars
  <2>1. Holders' = Holders
    BY DEF Holders, Guarded
  <2>2. SectionIsExclusive' /\ SeenIsCurrent' /\ VerifiesOwnPid'
    BY DEF IInv, SectionIsExclusive, SeenIsCurrent, VerifiesOwnPid, InSection
  <2>3. ReclaimFindsNone' /\ HolderOwnsLock'
    BY <2>1 DEF IInv, ReclaimFindsNone, HolderOwnsLock
  <2> QED
    BY <2>2, <2>3 DEF IInv
\* The steps that neither read nor write driver.lock, and leaving it alone.
<1>2. ASSUME NEW p \in Pid,
             Start(p) \/ Reuse(p) \/ Leave(p) \/ Kill(p) \/ Return(p)
      PROVE  IInv'
  <2> USE DEF TypeOK, Goto, DropMutex, Forget, Releasing, Bystander
  <2>1. CASE Start(p)
    BY <2>1, QuietStep DEF Start
  <2>2. CASE Reuse(p)
    BY <2>2, QuietStep DEF Reuse
  <2>3. CASE Leave(p)
    BY <2>3, QuietStep DEF Leave
  <2>4. CASE Kill(p)
    BY <2>4, QuietStep DEF Kill
  <2>5. CASE Return(p)
    BY <2>5, QuietStep DEF Return, Holders, Guarded
  <2> QED
    BY <1>2, <2>1, <2>2, <2>3, <2>4, <2>5
<1>3. ASSUME NEW p \in Pid, MakeDir(p) \/ Refuse(p) \/ WriteFails(p)
      PROVE  IInv'
  <2> USE DEF TypeOK, Goto, DropMutex, Forget, Releasing
  <2>1. CASE MakeDir(p)
    BY <2>1, QuietStep DEF MakeDir
  <2>2. CASE Refuse(p)
    BY <2>2, QuietStep DEF Refuse
  <2>3. CASE WriteFails(p)
    BY <2>3, QuietStep DEF WriteFails
  <2> QED
    BY <1>3, <2>1, <2>2, <2>3
\* Without the faults a run enters the section only by taking a free flock.
<1>4. ASSUME NEW p \in Pid, AcquireMutex(p) \/ ReleaseMutex(p)
      PROVE  IInv'
  <2>1. ASSUME NEW from, NEW to \in {"read", "reread"},
               NEW budget \in {AcquireTries, ReleaseTries},
               to = "reread" => from = "relock",
               dir_mutex(p, from, to, budget)
        PROVE  IInv'
    <3> USE DEF TypeOK, Goto
    <3>1. CASE TakeMutex(p, from, to)
      BY <2>1, <3>1, QuietStep, ConstantsAssumption
         DEF TakeMutex, Releasing, Holders, Guarded
    <3>2. CASE MutexBusy(p, from, to, budget)
      <4>1. UNCHANGED <<pc, lock, flock, seen>>
        BY <3>2 DEF MutexBusy
      <4> QED
        BY <4>1 DEF IInv, SectionIsExclusive, InSection, SeenIsCurrent,
           ReclaimFindsNone, VerifiesOwnPid, HolderOwnsLock, Holders, Guarded
    <3> QED
      BY <2>1, <3>1, <3>2 DEF dir_mutex, NoMutex
  <2> QED
    BY <1>4, <2>1 DEF AcquireMutex, ReleaseMutex
\* The steps inside the section: flock = p, and nobody else is there.
<1>5. ASSUME NEW p \in Pid, InSection(p), UNCHANGED flock,
             NEW l \in {"alive", "argv", "truncate", "write", "verify"},
             pc' = [pc EXCEPT ![p] = l], pc[p] \notin Releasing,
             l \in {"alive", "argv"} => seen'[p] \in Pid /\ seen'[p] = lock',
             l \in {"truncate", "write", "verify"} => Holders = {},
             l = "verify" => lock' = p,
             l \in {"alive", "argv"} => UNCHANGED lock
      PROVE  IInv'
  <2> USE <1>5 DEF TypeOK
  <2>1. flock' = p /\ \A q \in Pid \ {p} : ~InSection(q) /\ pc'[q] = pc[q]
    BY DEF IInv, SectionIsExclusive
  <2>2. Holders' = Holders
    BY <2>1 DEF Holders, Guarded, Releasing, InSection, Acquiring
  <2>3. SectionIsExclusive'
    BY <2>1 DEF SectionIsExclusive, InSection
  <2>4. SeenIsCurrent' /\ VerifiesOwnPid'
    BY <2>1 DEF SeenIsCurrent, VerifiesOwnPid, InSection, Acquiring
  <2>5. ReclaimFindsNone'
    BY <2>1, <2>2 DEF ReclaimFindsNone, InSection, Acquiring
  <2>6. HolderOwnsLock'
    BY <2>2 DEF IInv, HolderOwnsLock
  <2> QED
    BY <2>3, <2>4, <2>5, <2>6 DEF IInv
<1>6. ASSUME NEW p \in Pid, ReadLock(p) PROVE IInv'
  <2> USE <1>6 DEF ReadLock, Reads, Goto, TypeOK
  <2>1. InSection(p) /\ pc[p] \notin Releasing
    BY DEF InSection, Acquiring, Releasing
  <2>2. CASE lock \in Pid
    BY <2>1, <2>2, <1>5, ZenonT(60)
  <2>3. CASE lock \notin Pid
    <3>1. Holders = {}
      BY <2>3 DEF IInv, HolderOwnsLock, Holders
    <3> QED
      BY <2>1, <2>3, <3>1, <1>5, ZenonT(60)
  <2> QED
    BY <2>2, <2>3
<1>7. ASSUME NEW p \in Pid, pid_alive(p) \/ Reclaim(p) PROVE IInv'
  <2> USE DEF Goto, TypeOK
  <2>1. InSection(p) /\ pc[p] \notin Releasing
    BY <1>7 DEF InSection, Acquiring, Releasing, pid_alive, Reclaim
  <2>2. seen[p] \in Pid /\ seen[p] = lock /\ UNCHANGED <<lock, seen, flock>>
    BY <1>7 DEF IInv, SeenIsCurrent, pid_alive, Reclaim
  <2>3. CASE pid_alive(p) /\ pc[seen[p]] # "none"
    BY <2>1, <2>2, <2>3, <1>5 DEF pid_alive
  <2>4. CASE pid_alive(p) /\ pc[seen[p]] = "none"
    <3>1. Holders = {}
      BY <2>2, <2>4 DEF IInv, HolderOwnsLock, Holders, Guarded, Releasing
    <3> QED
      BY <2>1, <2>2, <2>4, <3>1, <1>5 DEF pid_alive
  <2>5. CASE Reclaim(p)
    <3>1. Holders = {}
      BY <2>2, <2>5
         DEF IInv, HolderOwnsLock, Holders, Guarded, Releasing, Reclaim,
             NamesChug, Run
    <3> QED
      BY <2>1, <2>2, <2>5, <3>1, <1>5 DEF Reclaim
  <2> QED
    BY <1>7, <2>3, <2>4, <2>5
<1>8. ASSUME NEW p \in Pid, Truncate(p) \/ WritePid(p) PROVE IInv'
  <2>1. InSection(p) /\ pc[p] \notin Releasing
    BY <1>8 DEF InSection, Acquiring, Releasing, Truncate, WritePid
  <2>2. Holders = {} /\ UNCHANGED flock
    BY <1>8 DEF IInv, ReclaimFindsNone, Truncate, WritePid
  <2> QED
    BY <1>8, <2>1, <2>2, <1>5 DEF Truncate, WritePid, Goto
\* The file still names p: p, and p alone, becomes a holder.
<1>9. ASSUME NEW p \in Pid, Verify(p) PROVE IInv'
  <2> USE DEF TypeOK
  <2>1. lock = p /\ Holders = {} /\ flock = p
    BY <1>9 DEF Verify, IInv, VerifiesOwnPid, ReclaimFindsNone,
       SectionIsExclusive, InSection, Acquiring
  <2>2. /\ pc' = [pc EXCEPT ![p] = "hold"]
        /\ lock' = lock
    BY <1>9, <2>1 DEF Verify, Reads, Goto
  <2>3. \A q \in Pid \ {p} : pc'[q] = pc[q] /\ ~InSection(q)
    BY <2>1, <2>2 DEF IInv, SectionIsExclusive
  <2>4. Holders' = {p}
    BY <2>1, <2>2, <2>3 DEF Holders, Guarded
  <2>5. \A q \in Pid : ~InSection(q)'
    BY <2>2, <2>3 DEF InSection, Acquiring
  <2>6. SectionIsExclusive' /\ SeenIsCurrent' /\ ReclaimFindsNone' /\ VerifiesOwnPid'
    BY <2>5 DEF SectionIsExclusive, SeenIsCurrent, ReclaimFindsNone,
       VerifiesOwnPid, InSection, Acquiring
  <2>7. HolderOwnsLock'
    BY <2>1, <2>2, <2>4 DEF HolderOwnsLock
  <2> QED
    BY <2>6, <2>7 DEF IInv
<1>10. ASSUME NEW p \in Pid, Compare(p) PROVE IInv'
  <2> USE <1>10 DEF TypeOK, Compare, Reads, Goto, DropMutex
  <2>1. flock = p
    BY DEF IInv, SectionIsExclusive, InSection
  <2>2. CASE lock = p
    BY <2>1, <2>2, QuietStep DEF Releasing, Holders, Guarded
  <2>3. CASE lock # p
    BY <2>1, <2>3, QuietStep DEF Releasing
  <2> QED
    BY <2>2, <2>3
\* The only holder goes, and its file with it.
<1>11. ASSUME NEW p \in Pid, Unlink(p) PROVE IInv'
  <2> USE <1>11 DEF TypeOK, Unlink, Goto
  <2>1. flock = p /\ p \in Holders
    BY DEF IInv, SectionIsExclusive, InSection, Holders, Guarded, Releasing
  <2>2. \A q \in Pid \ {p} : pc'[q] = pc[q] /\ ~InSection(q)
    BY <2>1 DEF IInv, SectionIsExclusive
  <2>3. Holders' = {}
    BY <2>1, <2>2 DEF IInv, HolderOwnsLock, Holders, Guarded, Releasing
  <2>4. \A q \in Pid : ~InSection(q)'
    BY <2>2 DEF InSection, Acquiring
  <2> QED
    BY <2>3, <2>4 DEF IInv, SectionIsExclusive, SeenIsCurrent,
       ReclaimFindsNone, VerifiesOwnPid, HolderOwnsLock, InSection, Acquiring
<1> QED
  BY <1>1, <1>2, <1>3, <1>4, <1>6, <1>7, <1>8, <1>9, <1>10, <1>11
     DEF Next, RunStep

LEMMA Invariance == ASSUME LockWorks PROVE Spec => []IInv
  BY InitIInv, NextIInv, PTL DEF Spec

-----------------------------------------------------------------------------
\* While a run holds the lock the file names it, and so the next starter is
\* refused (src/src/driver_lock.rs, acquire_with and Guard::drop).
THEOREM LockNamesHolder == ASSUME LockWorks PROVE Spec => []HolderOwnsLock
<1>1. IInv => HolderOwnsLock
  BY DEF IInv
<1> QED
  BY Invariance, <1>1, PTL

\* Two runs never go on side by side, whatever the number of starters, the
\* kills and the reuse of their pids: two holders would both be named by the
\* one driver.lock.
THEOREM Exclusion == ASSUME LockWorks PROVE Spec => []MutualExclusion
<1>1. IInv => MutualExclusion
  BY DEF IInv, HolderOwnsLock, MutualExclusion
<1> QED
  BY Invariance, <1>1, PTL

-----------------------------------------------------------------------------
\* What a step does to the set of holders and to the file that names one.
LEMMA HolderStep ==
  ASSUME LockWorks, IInv, IInv', [Next]_vars
  PROVE  /\ [M!Next]_Holders
         /\ \A p \in Holders : lock = p /\ lock' # p
               => pc[p] = "unlink" /\ pc'[p] = "exit"
<1> USE DEF LockWorks
<1> DEFINE Kept == \A p \in Holders : lock = p /\ lock' # p
                      => pc[p] = "unlink" /\ pc'[p] = "exit"
<1>1. CASE UNCHANGED vars
  BY <1>1 DEF vars, Holders, Guarded
<1>2. ASSUME NEW p \in Pid, UNCHANGED lock, NEW l,
             pc' = [pc EXCEPT ![p] = l],
             Guarded(p) \/ l \notin {"hold"} \cup Releasing
      PROVE  [M!Next]_Holders /\ Kept
  <2>1. Holders' = Holders \/ (p \in Holders /\ Holders' = Holders \ {p})
    BY <1>2 DEF IInv, TypeOK, Holders, Guarded
  <2> QED
    BY <1>2, <2>1 DEF M!Next, M!Release
<1>3. ASSUME NEW p \in Pid, UNCHANGED <<pc, lock>>
      PROVE  [M!Next]_Holders /\ Kept
  BY <1>3 DEF Holders, Guarded
<1>4. ASSUME NEW p \in Pid,
             \/ Start(p) \/ Reuse(p) \/ Leave(p) \/ Kill(p) \/ Return(p)
             \/ MakeDir(p) \/ Refuse(p) \/ Reclaim(p) \/ WriteFails(p)
             \/ ReadLock(p) \/ pid_alive(p) \/ Compare(p)
      PROVE  [M!Next]_Holders /\ Kept
  <2> USE DEF Goto, Releasing, Guarded
  <2>1. CASE Start(p) \/ Leave(p) \/ Kill(p) \/ Return(p)
    BY <2>1, <1>2 DEF Start, Leave, Kill, Return
  <2>2. CASE Reuse(p)
    BY <2>2, <1>2 DEF Reuse, Bystander
  <2>3. CASE MakeDir(p) \/ Refuse(p) \/ Reclaim(p) \/ WriteFails(p)
    BY <2>3, <1>2 DEF MakeDir, Refuse, Reclaim, WriteFails
  <2>4. CASE ReadLock(p)
    BY <2>4, <1>2 DEF ReadLock
  <2>5. CASE pid_alive(p)
    BY <2>5, <1>2 DEF pid_alive
  <2>6. CASE Compare(p)
    BY <2>6, <1>2 DEF Compare
  <2> QED
    BY <1>4, <2>1, <2>2, <2>3, <2>4, <2>5, <2>6
<1>5. ASSUME NEW p \in Pid, AcquireMutex(p) \/ ReleaseMutex(p)
      PROVE  [M!Next]_Holders /\ Kept
  <2> USE DEF Goto, Releasing, Guarded, dir_mutex, NoMutex, TakeMutex
  <2>1. CASE AcquireMutex(p)
    BY <2>1, <1>2, <1>3 DEF AcquireMutex, MutexBusy
  <2>2. CASE ReleaseMutex(p)
    BY <2>2, <1>2, <1>3 DEF ReleaseMutex, MutexBusy
  <2> QED
    BY <1>5, <2>1, <2>2
<1>6. ASSUME NEW p \in Pid, Truncate(p) \/ WritePid(p)
      PROVE  [M!Next]_Holders /\ Kept
  <2>1. Holders = {}
    BY <1>6 DEF IInv, ReclaimFindsNone, Truncate, WritePid
  <2>2. Holders' = {}
    BY <1>6, <2>1
       DEF IInv, TypeOK, Holders, Guarded, Releasing, Truncate, WritePid, Goto
  <2> QED
    BY <2>1, <2>2
<1>7. ASSUME NEW p \in Pid, Verify(p)
      PROVE  [M!Next]_Holders /\ Kept
  <2>1. Holders = {} /\ lock = p /\ UNCHANGED lock
    BY <1>7 DEF Verify, IInv, VerifiesOwnPid, ReclaimFindsNone
  <2>2. pc' = [pc EXCEPT ![p] = "hold"]
    BY <1>7, <2>1 DEF Verify, Reads, Goto
  <2>3. Holders' = {p}
    BY <2>1, <2>2 DEF IInv, TypeOK, Holders, Guarded
  <2> QED
    BY <2>1, <2>3 DEF M!Next, M!Acquire
<1>8. ASSUME NEW p \in Pid, Unlink(p)
      PROVE  [M!Next]_Holders /\ Kept
  <2>1. pc[p] = "unlink" /\ pc' = [pc EXCEPT ![p] = "exit"] /\ p \in Holders
    BY <1>8 DEF Unlink, Goto, Holders, Guarded, Releasing
  <2>2. Holders = {p} /\ lock = p
    BY <2>1 DEF IInv, HolderOwnsLock
  <2>3. Holders' = {} /\ pc'[p] = "exit"
    BY <2>1, <2>2 DEF IInv, TypeOK, Holders, Guarded, Releasing
  <2> QED
    BY <2>1, <2>2, <2>3 DEF M!Next, M!Release
<1> QED
  BY <1>1, <1>4, <1>5, <1>6, <1>7, <1>8 DEF Next, RunStep

\* The file that names a living holder is changed by that holder's own
\* release and by nothing else: neither by a starter that read an older lock
\* nor by the drop of a holder that has been replaced.
THEOREM ReleaseIsOwn == ASSUME LockWorks PROVE Spec => OnlyOwnRelease
<1>1. IInv /\ IInv' /\ [Next]_vars
        => [\A p \in Holders : lock = p /\ lock' # p
              => pc[p] = "unlink" /\ pc'[p] = "exit"]_vars
  BY HolderStep
<1> QED
  BY Invariance, <1>1, PTL DEF Spec, OnlyOwnRelease

\* The lock protocol implements RunMutex: a run becomes the owner only when
\* there is none, and stays the owner until it returns or is killed.
THEOREM Refinement == ASSUME LockWorks PROVE Spec => ImplementsMutex
<1>1. Init => M!Init
  BY DEF Init, M!Init, Holders, Guarded, Releasing
<1>2. IInv /\ IInv' /\ [Next]_vars => [M!Next]_Holders
  BY HolderStep
<1> QED
  BY Invariance, <1>1, <1>2, PTL DEF Spec, ImplementsMutex, M!Spec
=============================================================================
