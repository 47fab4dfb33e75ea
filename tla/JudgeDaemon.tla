---------------------------- MODULE JudgeDaemon -----------------------------
(***************************************************************************)
(* src/src/daemon.rs: how the runs on a host come by the one judge daemon. *)
(* A run's risk gate (DaemonJudge::judge), before each question, ensures   *)
(* that a daemon answers on $CHUG_HOME/daemon.sock: it probes, removes a   *)
(* stale socket, spawns a daemon and waits.  A daemon takes daemon.lock,   *)
(* loads the model, binds the socket and serves until it is killed.        *)
(* `chug daemon --stop' ends the daemon that the lock file names.          *)
(*                                                                         *)
(* Every system call that another process can slip in front of is a step.  *)
(* The questions and answers themselves are left out, and so is the        *)
(* registry of sessions.                                                   *)
(***************************************************************************)
EXTENDS Naturals, FiniteSets

CONSTANTS Clients,   \* the runs that use the judge
          Daemons,   \* the daemon processes the host has room for
          NoOne,      \* no process
          Rounds,    \* SPAWN_WAIT_BUDGET in rounds of wait_for_socket
          Lifetime,  \* MAX_LIFETIME_WAIT in such budgets (2 in the code)
          MaxStops   \* bound: --stop commands

ASSUME DaemonAssumption ==
    /\ NoOne \notin Clients \cup Daemons
    /\ Clients \cap Daemons = {}
    /\ Rounds \in Nat \ {0} /\ Lifetime \in Nat \ {0}
    /\ MaxStops \in Nat

VARIABLES at,      \* at[d]: where the daemon d is
          sock,    \* whose socket daemon.sock is
          flock,   \* who holds the flock on daemon.lock
          holder,  \* the pid that daemon.lock names
          pc,      \* pc[c]: where c is in judge and ensure_at
          spawned, \* spawned[c]: the child c has a handle of
          round,   \* round[c]: rounds of the wait under way
          waited,  \* waited[c]: budgets waited in vain since the last success
          dead,    \* dead[c]: the latch, and why: "exited" without a lock held, or "other"
          stop,    \* the --stop command under way
          stops    \* --stop commands so far

daemons == <<at, holder>>
clients == <<pc, spawned, round, waited, dead>>
stopper == <<stop, stops>>
judgeVars    == <<daemons, sock, flock, clients, stopper>>

-----------------------------------------------------------------------------
\* A daemon that "refused" to start, and one that "fell": it was killed, could
\* not load the model, or lost its socket before it was ready.
Over   == {"refused", "fell"}
Places == {"unborn", "start", "pid", "load", "bind", "listen", "chmod", "serve"} \cup Over
Holding == {"pid", "load", "bind", "listen", "chmod", "serve"}

Alive(d) == at[d] \notin Over \cup {"unborn"}

\* Nobody accepts on this socket: connect fails with ECONNREFUSED.
Deaf(d) == at[d] \notin {"chmod", "serve"}

NoStop == [pc |-> "off", pid |-> NoOne, served |-> {}]

JudgeTypeOK ==
    /\ at \in [Daemons -> Places]
    /\ sock \in Daemons \cup {NoOne}
    /\ flock \in Daemons \cup Clients \cup {NoOne}
    /\ holder \in Daemons \cup {NoOne}
    /\ pc \in [Clients -> {"idle", "child", "connect", "unlink", "spawn",
                           "wait", "poll", "probe", "exited", "unopened"}]
    /\ spawned \in [Clients -> Daemons \cup {NoOne}]
    /\ round \in [Clients -> 0..Rounds - 1]
    /\ waited \in [Clients -> 0..Lifetime]
    /\ dead \in [Clients -> {"no", "exited", "other"}]
    /\ stop \in [pc : {"off", "kill", "cleanup", "done"},
                 pid : Daemons \cup {NoOne}, served : SUBSET Daemons]
    /\ stops \in 0..MaxStops

JudgeInit ==
    /\ at = [d \in Daemons |-> "unborn"]
    /\ sock = NoOne /\ flock = NoOne /\ holder = NoOne
    /\ pc = [c \in Clients |-> "idle"] /\ spawned = [c \in Clients |-> NoOne]
    /\ round = [c \in Clients |-> 0] /\ waited = [c \in Clients |-> 0]
    /\ dead = [c \in Clients |-> "no"]
    /\ stop = NoStop /\ stops = 0

Release(p) == flock' = IF flock = p THEN NoOne ELSE flock

-----------------------------------------------------------------------------
(* The daemon: serve.                                                      *)

Moves(d, from, to) == at[d] = from /\ at' = [at EXCEPT ![d] = to]

\* acquire_lock_at: LOCK_EX|LOCK_NB.
acquire_lock_at(d) ==
    /\ \/ flock = NoOne /\ Moves(d, "start", "pid") /\ flock' = d
       \/ flock # NoOne /\ Moves(d, "start", "refused") /\ UNCHANGED flock
    /\ UNCHANGED <<sock, holder, clients, stopper>>

\* Slip: the pid is written for the first daemon only.
RecordPid_Once(d) ==
    /\ Moves(d, "pid", "load")
    /\ holder' = IF holder = NoOne THEN d ELSE holder
    /\ UNCHANGED <<sock, flock, clients, stopper>>

RecordPid(d) ==
    /\ Moves(d, "pid", "load")
    /\ holder' = d
    /\ UNCHANGED <<sock, flock, clients, stopper>>

\* Slip: whatever has the name is left to bind.
RemoveStale_Kept(d) ==
    /\ Moves(d, "load", "bind")
    /\ UNCHANGED <<sock, flock, holder, clients, stopper>>

\* The model is loaded; bind_socket: remove_file ...
RemoveStale(d) ==
    /\ Moves(d, "load", "bind")
    /\ sock' = NoOne
    /\ UNCHANGED <<flock, holder, clients, stopper>>

\* ... bind(2) ...
Bind(d) ==
    /\ sock = NoOne
    /\ Moves(d, "bind", "listen")
    /\ sock' = d
    /\ UNCHANGED <<flock, holder, clients, stopper>>

\* ... listen(2) ...
Listen(d) ==
    /\ Moves(d, "listen", "chmod")
    /\ UNCHANGED <<sock, flock, holder, clients, stopper>>

\* ... and chmod(2) by name, which fails where the name is gone.
set_file_mode(d) ==
    /\ \/ sock = d /\ Moves(d, "chmod", "serve") /\ UNCHANGED flock
       \/ sock # d /\ Moves(d, "chmod", "fell") /\ Release(d)
    /\ UNCHANGED <<sock, holder, clients, stopper>>

\* SIGKILL, a crash, a model that cannot be loaded.
Falls(d) ==
    /\ Alive(d)
    /\ at' = [at EXCEPT ![d] = "fell"]
    /\ Release(d)
    /\ UNCHANGED <<sock, holder, clients, stopper>>

DaemonStep(d) ==
    \/ acquire_lock_at(d) \/ RecordPid(d) \/ RemoveStale(d)
    \/ Bind(d) \/ Listen(d) \/ set_file_mode(d)

-----------------------------------------------------------------------------
(* The client: DaemonJudge::judge.                                         *)

ClientTo(c, l) == pc' = [pc EXCEPT ![c] = l]
At(c, l)   == pc[c] = l

Healthy == sock # NoOne /\ at[sock] = "serve"

\* Ensured: the question is put, and answered or not.  Nothing of it stays.
Ensured(c) ==
    /\ waited' = [waited EXCEPT ![c] = 0]
    /\ round' = [round EXCEPT ![c] = 0]
    /\ ClientTo(c, "idle")
    /\ UNCHANGED dead

\* The next question.  A latched client fails it on the spot; otherwise a
\* daemon that answers is enough.
healthz_ok(c) ==
    /\ At(c, "idle") /\ dead[c] = "no"
    /\ IF Healthy THEN Ensured(c)
                  ELSE ClientTo(c, "child") /\ UNCHANGED <<round, waited, dead>>
    /\ UNCHANGED <<daemons, sock, flock, spawned, stopper>>

ChildAlive(c) == spawned[c] # NoOne /\ Alive(spawned[c])

\* A child that is still loading is waited for.
OwnChild(c) ==
    /\ At(c, "child")
    /\ ClientTo(c, IF ChildAlive(c) THEN "wait" ELSE "connect")
    /\ UNCHANGED <<daemons, sock, flock, spawned, round, waited, dead, stopper>>

connect_refused(c) ==
    /\ At(c, "connect")
    /\ ClientTo(c, IF sock # NoOne /\ Deaf(sock) THEN "unlink" ELSE "spawn")
    /\ UNCHANGED <<daemons, sock, flock, spawned, round, waited, dead, stopper>>

Unlink(c) ==
    /\ At(c, "unlink")
    /\ sock' = NoOne
    /\ ClientTo(c, "spawn")
    /\ UNCHANGED <<daemons, flock, spawned, round, waited, dead, stopper>>

Spare == {d \in Daemons : at[d] = "unborn"}

spawn_daemon(c) ==
    /\ At(c, "spawn") /\ Spare # {}
    /\ LET d == CHOOSE d \in Spare : TRUE
       IN  at' = [at EXCEPT ![d] = "start"] /\ spawned' = [spawned EXCEPT ![c] = d]
    /\ ClientTo(c, "wait")
    /\ UNCHANGED <<holder, sock, flock, round, waited, dead, stopper>>

\* A failure of ensure that latches the client for good ...
Latches(c, why) ==
    /\ dead' = [dead EXCEPT ![c] = why]
    /\ round' = [round EXCEPT ![c] = 0]
    /\ ClientTo(c, "idle")
    /\ UNCHANGED waited

\* ... and the one that does so only when the lifetime budget is used up
\* (latch_reason).
GivesUp(c) ==
    /\ waited' = [waited EXCEPT ![c] = @ + 1]
    /\ dead' = [dead EXCEPT ![c] = IF waited[c] + 1 >= Lifetime THEN "other" ELSE @]
    /\ round' = [round EXCEPT ![c] = 0]
    /\ ClientTo(c, "idle")

\* The host has no room for another process.
SpawnFails(c) ==
    /\ At(c, "spawn") /\ Spare = {}
    /\ Latches(c, "other")
    /\ UNCHANGED <<daemons, sock, flock, spawned, stopper>>

\* wait_for_socket, round by round: does the socket answer ...
Waiting(c) ==
    /\ At(c, "wait")
    /\ IF Healthy THEN Ensured(c)
                  ELSE ClientTo(c, "poll") /\ UNCHANGED <<round, waited, dead>>
    /\ UNCHANGED <<daemons, sock, flock, spawned, stopper>>

\* Slip: as long as the lock is held, a daemon is going to bind.
NextRound_Trusting(c) ==
    IF round[c] + 1 = Rounds /\ flock = NoOne
    THEN GivesUp(c)
    ELSE /\ round' = [round EXCEPT ![c] = IF @ + 1 = Rounds THEN @ ELSE @ + 1]
         /\ ClientTo(c, "wait")
         /\ UNCHANGED <<waited, dead>>

\* ... (if not, and there is time left, the next round) ...
NextRound(c) ==
    IF round[c] + 1 = Rounds
    THEN GivesUp(c)
    ELSE /\ round' = [round EXCEPT ![c] = @ + 1]
         /\ ClientTo(c, "wait")
         /\ UNCHANGED <<waited, dead>>

\* ... has the child ended ...
Poll(c) ==
    /\ At(c, "poll")
    /\ IF ChildAlive(c) THEN NextRound(c)
                        ELSE ClientTo(c, "probe") /\ UNCHANGED <<round, waited, dead>>
    /\ UNCHANGED <<daemons, sock, flock, spawned, stopper>>

\* Slip: a child that has ended is proof enough.
daemon_lock_held_Unasked(c) ==
    /\ At(c, "probe")
    /\ ClientTo(c, "exited")
    /\ flock' = IF flock = NoOne THEN c ELSE flock
    /\ UNCHANGED <<daemons, sock, spawned, round, waited, dead, stopper>>

\* ... does another daemon hold the lock, which is asked by trying to take it
\* (a lock file that cannot be opened is taken for one that nobody holds) ...
daemon_lock_held(c) ==
    /\ At(c, "probe")
    /\ \/ flock # NoOne /\ NextRound(c) /\ UNCHANGED flock
       \/ /\ flock = NoOne /\ flock' = c
          /\ ClientTo(c, "exited") /\ UNCHANGED <<round, waited, dead>>
       \/ ClientTo(c, "unopened") /\ UNCHANGED <<flock, round, waited, dead>>
    /\ UNCHANGED <<daemons, sock, spawned, stopper>>

\* ... nobody does: nothing will ever bind.  (The message is the same.)
NothingWillServe(c) ==
    /\ pc[c] \in {"exited", "unopened"}
    /\ Release(c)
    /\ Latches(c, IF At(c, "exited") THEN "exited" ELSE "other")
    /\ UNCHANGED <<daemons, sock, spawned, stopper>>

\* The run ends or is killed, and another takes its place.  Its child goes on.
Ends(c) ==
    /\ ClientTo(c, "idle")
    /\ spawned' = [spawned EXCEPT ![c] = NoOne]
    /\ round' = [round EXCEPT ![c] = 0]
    /\ waited' = [waited EXCEPT ![c] = 0]
    /\ dead' = [dead EXCEPT ![c] = "no"]
    /\ Release(c)
    /\ UNCHANGED <<daemons, sock, stopper>>

Ensure(c) ==
    \/ healthz_ok(c) \/ OwnChild(c) \/ connect_refused(c) \/ Unlink(c)
    \/ spawn_daemon(c) \/ SpawnFails(c) \/ Waiting(c) \/ Poll(c)
    \/ daemon_lock_held(c) \/ NothingWillServe(c)

-----------------------------------------------------------------------------
(* chug daemon --stop.                                                     *)

\* The living process that the lock file names.
ReadHolder ==
    /\ stop.pc \in {"off", "done"} /\ stops < MaxStops
    /\ LET found == holder # NoOne /\ Alive(holder)
       IN  stop' = [pc |-> IF found THEN "kill" ELSE "cleanup",
                    pid |-> IF found THEN holder ELSE NoOne,
                    served |-> {d \in Daemons : at[d] = "serve"}]
    /\ stops' = stops + 1
    /\ UNCHANGED <<daemons, sock, flock, clients>>

\* SIGTERM, which a daemon does not catch; SIGKILL where it does not help.
terminate_daemon ==
    /\ stop.pc = "kill"
    /\ at' = [at EXCEPT ![stop.pid] = IF @ \in Over THEN @ ELSE "fell"]
    /\ Release(stop.pid)
    /\ stop' = [stop EXCEPT !.pc = "cleanup", !.pid = NoOne]
    /\ UNCHANGED <<holder, sock, clients, stops>>

cleanup_socket ==
    /\ stop.pc = "cleanup"
    /\ sock' = NoOne
    /\ stop' = [stop EXCEPT !.pc = "done", !.served = {d \in @ : Alive(d)}]
    /\ UNCHANGED <<daemons, flock, clients, stops>>

-----------------------------------------------------------------------------
Stop == ReadHolder \/ terminate_daemon \/ cleanup_socket

JudgeNext ==
    \/ \E d \in Daemons : DaemonStep(d) \/ Falls(d)
    \/ \E c \in Clients : Ensure(c) \/ Ends(c)
    \/ Stop

\* A client is not blocked by anybody: requests have time limits of 2 s, the
\* lock is asked without waiting, and a wait counts its rounds.  Nothing is
\* assumed of the daemons.
JudgeFair == \A c \in Clients : WF_judgeVars(~At(c, "idle") /\ Ensure(c))

JudgeSpec == JudgeInit /\ [][JudgeNext]_judgeVars /\ JudgeFair

-----------------------------------------------------------------------------
(* Properties.                                                             *)

\* The model is loaded once per host, and the name of the socket is never
\* taken by, or taken from, a daemon that has no business with it: a living
\* daemon that the name leads to holds the lock, and one about to bind finds
\* the name free, however stale the socket its predecessor left.
OneDaemon ==
    /\ \A d \in Daemons : at[d] \in Holding => flock = d
    /\ \A d \in Daemons : at[d] = "bind" => sock = NoOne

\* A client that asks for the lock concludes that nothing will ever serve only
\* if some daemon really broke down: that its own was refused, because another
\* is loading, is no reason to go without a judge for the rest of the run.
\* (One that cannot open the lock file does conclude it.)
LatchHasCause ==
    \A c \in Clients : dead[c] = "exited" => \E d \in Daemons : at[d] = "fell"

\* Whatever was serving when --stop was called is gone when it returns, even a
\* daemon whose socket has lost its name and that nobody else can reach.
StopStops == stop.pc = "done" => \A d \in stop.served : ~Alive(d)

\* No command of the model is held up for good: every question comes to an
\* end, whatever daemons and other clients do.
CallsReturn == \A c \in Clients : []<>At(c, "idle")
=============================================================================
