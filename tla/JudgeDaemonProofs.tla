------------------------- MODULE JudgeDaemonProofs -------------------------
(***************************************************************************)
(* Proofs about module JudgeDaemon, for any number of clients, daemons,    *)
(* rounds, budgets and --stop commands: its types, that there is one       *)
(* daemon, that no client latches off without a cause, and that --stop     *)
(* leaves nothing behind.                                                  *)
(***************************************************************************)
EXTENDS JudgeDaemon, TLAPS

-----------------------------------------------------------------------------
(* The inductive invariant.                                                *)

\* A question is only put by a client that is not latched, and that has part
\* of its lifetime budget left.
AskersLive ==
    \A c \in Clients : /\ dead[c] # "no" => At(c, "idle")
                       /\ dead[c] = "no" => waited[c] < Lifetime

\* A client that waits has spawned a child; one that asks for the lock has
\* seen it ended.
WaitsForChild ==
    \A c \in Clients :
        /\ pc[c] \in {"wait", "poll", "probe", "exited", "unopened"} =>
             spawned[c] # NoOne /\ at[spawned[c]] # "unborn"
        /\ At(c, "probe") => at[spawned[c]] \in Over

NoneFell == \A d \in Daemons : at[d] # "fell"

\* As long as no daemon fell, the first one that took the lock has it; so
\* one that was refused is proof of a daemon that is on its way, and every
\* probe of the lock finds it held.
FirstDaemonStays ==
    NoneFell =>
      /\ flock \notin Clients
      /\ flock \in Daemons => at[flock] \in Holding
      /\ flock = NoOne => \A d \in Daemons : at[d] # "refused"
      /\ \A c \in Clients : ~At(c, "exited") /\ dead[c] # "exited"

\* Past RecordPid, daemon.lock names the daemon that holds the flock.
LockNamesDaemon ==
    \A d \in Daemons : at[d] \in Holding \ {"pid"} => holder = d

\* What was serving when --stop looked is the process it is about to kill, or
\* is gone.
StopHasServer ==
    \A d \in stop.served : /\ at[d] # "unborn"
                           /\ Alive(d) => stop.pc = "kill" /\ stop.pid = d

JudgeInv == /\ JudgeTypeOK /\ AskersLive /\ WaitsForChild /\ OneDaemon
        /\ FirstDaemonStays /\ LockNamesDaemon /\ StopHasServer

-----------------------------------------------------------------------------
LEMMA JudgeInitially == JudgeInit => JudgeInv
<1> SUFFICES ASSUME JudgeInit PROVE JudgeInv
  OBVIOUS
<1> USE DaemonAssumption DEF JudgeInit
<1>1. JudgeTypeOK
  BY DEF JudgeTypeOK, Places, NoStop, Over
<1>2. AskersLive /\ WaitsForChild
  BY DEF AskersLive, WaitsForChild, At
<1>3. OneDaemon /\ FirstDaemonStays
  BY DEF OneDaemon, FirstDaemonStays, NoneFell, Holding, At
<1>4. LockNamesDaemon /\ StopHasServer
  BY DEF LockNamesDaemon, StopHasServer, Holding, NoStop
<1> QED
  BY <1>1, <1>2, <1>3, <1>4 DEF JudgeInv

\* The steps of a daemon, and its fall.
LEMMA DaemonKeeps ==
  ASSUME JudgeInv, NEW d \in Daemons, DaemonStep(d) \/ Falls(d)
  PROVE  JudgeInv'
<1> USE DaemonAssumption DEF JudgeInv, DaemonStep, Moves, Release, clients, stopper
<1>1. JudgeTypeOK'
  BY DEF JudgeTypeOK, Places, Over, acquire_lock_at, RecordPid, RemoveStale, Bind,
         Listen, set_file_mode, Falls
<1>2. AskersLive'
  BY DEF AskersLive, At, acquire_lock_at, RecordPid, RemoveStale, Bind,
         Listen, set_file_mode, Falls
<1>3. WaitsForChild'
  BY DEF JudgeTypeOK, WaitsForChild, At, Over, Alive, acquire_lock_at, RecordPid,
         RemoveStale, Bind, Listen, set_file_mode, Falls
<1>4. OneDaemon'
  BY DEF JudgeTypeOK, OneDaemon, Holding, Alive, Over, acquire_lock_at, RecordPid,
         RemoveStale, Bind, Listen, set_file_mode, Falls
<1>5. FirstDaemonStays'
  BY DEF JudgeTypeOK, OneDaemon, FirstDaemonStays, NoneFell, Holding, Alive, Over,
         At, acquire_lock_at, RecordPid, RemoveStale, Bind, Listen,
         set_file_mode, Falls
<1>6. LockNamesDaemon'
  BY DEF JudgeTypeOK, OneDaemon, LockNamesDaemon, Holding, Alive, Over,
         acquire_lock_at, RecordPid, RemoveStale, Bind,
         Listen, set_file_mode, Falls
<1>7. StopHasServer'
  BY DEF JudgeTypeOK, StopHasServer, Alive, Over, acquire_lock_at, RecordPid,
         RemoveStale, Bind, Listen, set_file_mode, Falls
<1> QED
  BY <1>1, <1>2, <1>3, <1>4, <1>5, <1>6, <1>7

\* The steps of a client up to the spawn, and its end.
LEMMA EnsuringKeeps ==
  ASSUME JudgeInv, NEW c \in Clients,
         \/ healthz_ok(c) \/ OwnChild(c) \/ connect_refused(c) \/ Unlink(c)
         \/ SpawnFails(c) \/ Waiting(c) \/ Ends(c)
  PROVE  JudgeInv'
<1> USE DaemonAssumption DEF JudgeInv, Ensured, ClientTo, Latches, Release,
        daemons, stopper
<1>1. JudgeTypeOK'
  BY DEF JudgeTypeOK, AskersLive, At, healthz_ok, OwnChild, connect_refused,
         Unlink, SpawnFails, Waiting, Ends
<1>2. AskersLive'
  BY DEF JudgeTypeOK, AskersLive, At, healthz_ok, OwnChild, connect_refused,
         Unlink, SpawnFails, Waiting, Ends
<1>3. WaitsForChild'
  BY DEF JudgeTypeOK, WaitsForChild, At, Over, ChildAlive, Alive, healthz_ok,
         OwnChild, connect_refused, Unlink, SpawnFails, Waiting, Ends
<1>4. OneDaemon'
  BY DEF JudgeTypeOK, OneDaemon, Holding, healthz_ok, OwnChild, connect_refused,
         Unlink, SpawnFails, Waiting, Ends
<1>5. FirstDaemonStays'
  BY DEF JudgeTypeOK, FirstDaemonStays, NoneFell, Holding, At, healthz_ok,
         OwnChild, connect_refused, Unlink, SpawnFails, Waiting, Ends
<1>6. LockNamesDaemon' /\ StopHasServer'
  BY DEF JudgeTypeOK, LockNamesDaemon, StopHasServer, Alive, Holding, Over,
         healthz_ok, OwnChild, connect_refused, Unlink, SpawnFails, Waiting, Ends
<1> QED
  BY <1>1, <1>2, <1>3, <1>4, <1>5, <1>6

LEMMA SpawnKeeps ==
  ASSUME JudgeInv, NEW c \in Clients, spawn_daemon(c)
  PROVE  JudgeInv'
<1> USE DaemonAssumption DEF JudgeInv, ClientTo
<1>1. PICK d \in Daemons : /\ at[d] = "unborn"
                           /\ at' = [at EXCEPT ![d] = "start"]
                           /\ spawned' = [spawned EXCEPT ![c] = d]
  <2>1. (CHOOSE d \in Spare : TRUE) \in Spare
    BY DEF spawn_daemon
  <2> QED
    BY <2>1 DEF spawn_daemon, Spare
<1>2. /\ At(c, "spawn") /\ pc' = [pc EXCEPT ![c] = "wait"]
      /\ UNCHANGED <<holder, sock, flock, round, waited, dead, stopper>>
  BY DEF spawn_daemon
<1>3. JudgeTypeOK'
  BY <1>1, <1>2 DEF JudgeTypeOK, Places, stopper
<1>4. AskersLive' /\ WaitsForChild'
  BY <1>1, <1>2 DEF JudgeTypeOK, AskersLive, WaitsForChild, At, Over
<1>5. OneDaemon' /\ FirstDaemonStays'
  BY <1>1, <1>2 DEF JudgeTypeOK, OneDaemon, FirstDaemonStays, NoneFell, Holding, At
<1>6. LockNamesDaemon'
  BY <1>1, <1>2 DEF JudgeTypeOK, LockNamesDaemon, Holding
<1>7. StopHasServer'
  BY <1>1, <1>2 DEF JudgeTypeOK, StopHasServer, Alive, Over, stopper
<1> QED
  BY <1>3, <1>4, <1>5, <1>6, <1>7

\* The wait: the poll of the child, the probe of the lock, the verdict.
LEMMA WaitingKeeps ==
  ASSUME JudgeInv, NEW c \in Clients,
         Poll(c) \/ daemon_lock_held(c) \/ NothingWillServe(c)
  PROVE  JudgeInv'
<1> USE DaemonAssumption DEF JudgeInv, NextRound, GivesUp, ClientTo, Latches, Release,
        daemons, stopper
<1>1. JudgeTypeOK'
  BY DEF JudgeTypeOK, AskersLive, At, Poll, daemon_lock_held, NothingWillServe
<1>2. AskersLive'
  BY DEF JudgeTypeOK, AskersLive, At, Poll, daemon_lock_held, NothingWillServe
<1>3. WaitsForChild'
  BY DEF JudgeTypeOK, WaitsForChild, At, Over, ChildAlive, Alive, Poll,
         daemon_lock_held, NothingWillServe
<1>4. OneDaemon'
  BY DEF JudgeTypeOK, OneDaemon, Holding, Poll, daemon_lock_held, NothingWillServe
<1>5. FirstDaemonStays'
  BY DEF JudgeTypeOK, WaitsForChild, FirstDaemonStays, NoneFell, Holding, Over,
         At, Poll, daemon_lock_held, NothingWillServe
<1>6. LockNamesDaemon' /\ StopHasServer'
  BY DEF LockNamesDaemon, StopHasServer, Alive, Poll, daemon_lock_held,
         NothingWillServe
<1> QED
  BY <1>1, <1>2, <1>3, <1>4, <1>5, <1>6

LEMMA StopKeeps ==
  ASSUME JudgeInv, Stop
  PROVE  JudgeInv'
<1> USE DaemonAssumption DEF JudgeInv, Stop, Release, daemons, clients
<1>1. JudgeTypeOK'
  <2>1. CASE ReadHolder
    BY <2>1 DEF JudgeTypeOK, ReadHolder
  <2>2. CASE terminate_daemon
    <3>1. stop.pid \in Daemons \cup {NoOne} /\ stop.served \in SUBSET Daemons
      BY DEF JudgeTypeOK
    <3>2. stop' = [pc |-> "cleanup", pid |-> NoOne, served |-> stop.served]
      BY <2>2 DEF terminate_daemon, JudgeTypeOK
    <3>3. at' \in [Daemons -> Places]
      BY <2>2 DEF terminate_daemon, JudgeTypeOK, Places, Over
    <3> QED
      BY <2>2, <3>1, <3>2, <3>3 DEF terminate_daemon, JudgeTypeOK
  <2>3. CASE cleanup_socket
    <3>1. stop.pid \in Daemons \cup {NoOne} /\ stop.served \in SUBSET Daemons
      BY DEF JudgeTypeOK
    <3>2. stop' = [pc |-> "done", pid |-> stop.pid,
                   served |-> {d \in stop.served : Alive(d)}]
      BY <2>3 DEF cleanup_socket, JudgeTypeOK
    <3>3. {d \in stop.served : Alive(d)} \in SUBSET Daemons
      BY <3>1
    <3>4. stop' \in [pc : {"off", "kill", "cleanup", "done"},
                     pid : Daemons \cup {NoOne}, served : SUBSET Daemons]
      BY <3>1, <3>2, <3>3
    <3> QED
      BY <2>3, <3>4 DEF cleanup_socket, JudgeTypeOK
  <2> QED
    BY <2>1, <2>2, <2>3
<1>2. AskersLive'
  BY DEF AskersLive, At, ReadHolder, terminate_daemon, cleanup_socket
<1>3. WaitsForChild'
  BY DEF JudgeTypeOK, WaitsForChild, At, Over, ReadHolder, terminate_daemon,
         cleanup_socket
<1>4. OneDaemon'
  BY DEF JudgeTypeOK, OneDaemon, Holding, Over, ReadHolder, terminate_daemon,
         cleanup_socket
<1>5. FirstDaemonStays'
  BY DEF JudgeTypeOK, FirstDaemonStays, NoneFell, Holding, Over, At, ReadHolder,
         terminate_daemon, cleanup_socket
<1>6. LockNamesDaemon'
  BY DEF JudgeTypeOK, LockNamesDaemon, Holding, Over, ReadHolder,
         terminate_daemon, cleanup_socket
<1>7. StopHasServer'
  <2>1. CASE ReadHolder
    BY <2>1 DEF JudgeTypeOK, OneDaemon, LockNamesDaemon, StopHasServer, Holding,
                Alive, Over, ReadHolder
  <2>2. CASE terminate_daemon
    <3>1. stop'.served = stop.served
      BY <2>2 DEF terminate_daemon, JudgeTypeOK
    <3>2. ASSUME NEW d \in stop.served
          PROVE  at'[d] # "unborn" /\ at'[d] \in Over \cup {"unborn"}
      BY <2>2, <3>2 DEF terminate_daemon, JudgeTypeOK, StopHasServer, Alive, Over
    <3> QED
      BY <3>1, <3>2 DEF StopHasServer, Alive
  <2>3. CASE cleanup_socket
    <3>1. stop'.served = {d \in stop.served : Alive(d)}
      BY <2>3 DEF cleanup_socket, JudgeTypeOK
    <3>2. stop'.served = {}
      BY <2>3, <3>1 DEF cleanup_socket, StopHasServer
    <3> QED
      BY <3>2 DEF StopHasServer
  <2> QED
    BY <2>1, <2>2, <2>3
<1> QED
  BY <1>1, <1>2, <1>3, <1>4, <1>5, <1>6, <1>7

LEMMA JudgeStep == JudgeInv /\ [JudgeNext]_judgeVars => JudgeInv'
<1> SUFFICES ASSUME JudgeInv, [JudgeNext]_judgeVars PROVE JudgeInv'
  OBVIOUS
<1>1. CASE UNCHANGED judgeVars
  BY <1>1 DEF judgeVars, daemons, clients, stopper, JudgeInv, JudgeTypeOK, AskersLive,
              WaitsForChild, OneDaemon, FirstDaemonStays, NoneFell, At,
              LockNamesDaemon, StopHasServer, Alive
<1>2. ASSUME NEW d \in Daemons, DaemonStep(d) \/ Falls(d) PROVE JudgeInv'
  BY <1>2, DaemonKeeps
<1>3. ASSUME NEW c \in Clients, Ensure(c) \/ Ends(c) PROVE JudgeInv'
  BY <1>3, EnsuringKeeps, SpawnKeeps, WaitingKeeps DEF Ensure
<1>4. CASE Stop
  BY <1>4, StopKeeps
<1> QED
  BY <1>1, <1>2, <1>3, <1>4 DEF JudgeNext

LEMMA JudgeInvariance == JudgeSpec => []JudgeInv
  BY JudgeInitially, JudgeStep, PTL DEF JudgeSpec

-----------------------------------------------------------------------------
\* Every variable keeps its type; the count of vain waits never passes
\* Lifetime, although GivesUp itself does not look at it.
THEOREM JudgeTypeCorrect == JudgeSpec => []JudgeTypeOK
<1>1. JudgeInv => JudgeTypeOK
  BY DEF JudgeInv
<1> QED
  BY <1>1, JudgeInvariance, PTL

\* One daemon per host, whatever falls, and whoever removes the socket: a
\* daemon past acquire_lock_at holds the flock on daemon.lock, and one about to
\* bind finds the name free.
THEOREM OneDaemonPerHost == JudgeSpec => []OneDaemon
<1>1. JudgeInv => OneDaemon
  BY DEF JudgeInv
<1> QED
  BY <1>1, JudgeInvariance, PTL

\* wait_for_socket gives up for good only where a daemon really broke down.
THEOREM NoLatchWithoutCause == JudgeSpec => []LatchHasCause
<1>1. JudgeInv => LatchHasCause
  BY DEF JudgeInv, FirstDaemonStays, NoneFell, LatchHasCause
<1> QED
  BY <1>1, JudgeInvariance, PTL

\* The server's pid is in the lock file before it serves and until it is gone,
\* so --stop finds it, reachable by its socket or not.
THEOREM StopIsThorough == JudgeSpec => []StopStops
<1>1. JudgeInv => StopStops
  BY DEF JudgeInv, StopHasServer, StopStops
<1> QED
  BY <1>1, JudgeInvariance, PTL
=============================================================================
