------------------------------- MODULE Control -------------------------------
(***************************************************************************)
(* Detached runs and those who steer them from outside.  `chug mcp-serve'  *)
(* launches, cancels and aborts runs (src/src/mcp_serve.rs); an            *)
(* orchestrating run launches them and waits for them with its delegate    *)
(* tool (src/src/delegate.rs).  Neither is told anything by a run: they    *)
(* look at the process table and read .chug/events.jsonl, which runs       *)
(* append to line by line (src/src/eventlog.rs), the abort verb as well.   *)
(*                                                                         *)
(* All runs are of one directory.  Pids are not reused.  The tail that is  *)
(* read is the whole file: what it cuts off is before the last verdict.    *)
(* A behaviour has calls of the server or waits of the orchestrator: of    *)
(* the other either sees what runs do as well, an abort line or a death.   *)
(***************************************************************************)
EXTENDS Naturals

CONSTANTS MaxRuns,     \* bound: runs launched
          MaxIters,    \* bound: the number of an iteration
          MaxServers   \* bound: server processes, one after the other

ASSUME ControlAssumption ==
    MaxRuns \in Nat /\ MaxIters \in Nat /\ MaxServers \in Nat \ {0}

VARIABLES observer, \* who calls or waits in this behaviour
          run,      \* run[r]: its process, its parent, how far it is
          log,      \* events.jsonl: what its finished lines come to
          file,     \* the file exists
          tail,     \* its last line: "whole", "half", or one without its newline
          owner,    \* history: the run that began the last segment, or 0
          torn,     \* history: a line of that segment was cut
          server,   \* the call mcp-serve is in
          servers,  \* servers so far
          answer,   \* what the last call said, and of which run
          wait      \* the wait of the orchestrator

controlVars == <<observer, run, log, file, tail, owner, torn, server, servers, answer, wait>>
stream      == <<log, file, tail, owner, torn>>
observers   == <<observer, server, servers, answer, wait>>

Runs     == 1..MaxRuns
Progress == {"iteration", "rejected"}
Verdicts == {"accepted", "abort"}
Answers  == {"already-done", "aborted", "unrecorded", "cancelled", "not-found", "failed", "none"}
NoAnswer == [said |-> "none", of |-> 0]
Unborn   == [leader |-> "none", parent |-> "init", pc |-> "new"]
NoCall   == [pc |-> "idle", verb |-> "none", of |-> 0, terminal |-> FALSE]

\* DelegateSummary: the flags are those of the latest segment.
None      == [iteration |-> 0, rejected |-> FALSE, accepted |-> FALSE, aborted |-> FALSE]
Summaries == [iteration : 0..MaxIters, rejected : BOOLEAN, accepted : BOOLEAN, aborted : BOOLEAN]
NoWait    == [pc |-> "idle", of |-> 0, terminal |-> FALSE, entry |-> None,
              existed |-> FALSE, alive |-> FALSE]

ControlTypeOK ==
    /\ observer \in {"server", "orchestrator"}
    /\ run \in [Runs -> [leader : {"none", "up", "zombie", "gone"}, parent : {"server", "orchestrator", "init"},
                         pc : {"new", "launched", "rotated", "running", "ending", "over"}]]
    /\ log \in Summaries /\ file \in BOOLEAN /\ tail \in {"whole", "half"} \cup Verdicts
    /\ owner \in 0..MaxRuns /\ torn \in BOOLEAN
    /\ server \in [pc : {"idle", "look", "own", "term", "grace", "record"}, verb : {"none", "cancel", "abort"},
                   of : 0..MaxRuns, terminal : BOOLEAN]
    /\ servers \in 0..MaxServers
    /\ answer \in [said : Answers, of : 0..MaxRuns]
    /\ wait \in [pc : {"idle", "waits"}, of : 0..MaxRuns, terminal : BOOLEAN,
                 entry : Summaries, existed : BOOLEAN, alive : BOOLEAN]

ControlInit ==
    /\ observer \in {"server", "orchestrator"} /\ run = [r \in Runs |-> Unborn]
    /\ log = None /\ file = FALSE /\ tail = "whole" /\ owner = 0 /\ torn = FALSE
    /\ server = NoCall /\ servers = 1
    /\ answer = NoAnswer /\ wait = NoWait

-----------------------------------------------------------------------------
(* The stream, and what its readers make of it.                            *)

\* summarize_events, line by line: a run_start begins a segment, of which the
\* flags are (the last iteration stays).
Reads(sum, line) ==
    CASE line = "run_start" -> [None EXCEPT !.iteration = sum.iteration]
      [] line = "iteration" -> [sum EXCEPT !.iteration = @ + 1]
      [] line = "rejected"  -> [sum EXCEPT !.rejected = TRUE]
      [] line = "accepted"  -> [sum EXCEPT !.accepted = TRUE]
      [] line = "abort"     -> [sum EXCEPT !.aborted = TRUE]

Summary == IF tail \in Verdicts THEN Reads(log, tail) ELSE log

\* state() is "done" after any goal line, a rejected one too, or "aborted".
Terminal == Summary.rejected \/ Summary.accepted \/ Summary.aborted

\* writeln!: a line behind half a line, or behind one without its newline, is
\* one line with it, which does not parse.
Appends(line) ==
    /\ log' = IF tail = "whole" THEN Reads(log, line) ELSE log
    /\ file' = TRUE /\ tail' = "whole"

-----------------------------------------------------------------------------
(* Processes.                                                              *)

Dead(r) == [run[r] EXCEPT !.leader = IF run[r].parent = "init" THEN "gone" ELSE "zombie",
                          !.pc = "over"]

\* reap_and_alive(pid), asked by p: its own zombies are reaped by asking; the
\* zombie of somebody else answers like a living process.
Reaped(p, r)  == IF run[r].leader = "zombie" /\ run[r].parent = p
                 THEN [run[r] EXCEPT !.leader = "gone", !.parent = "init"] ELSE run[r]
AliveTo(p, r) == Reaped(p, r).leader \in {"up", "zombie"}
Asks(p, r)    == run' = [run EXCEPT ![r] = Reaped(p, r)]

\* A signal ends the run at once, maybe inside a line it is writing.
Killed(r) ==
    /\ run' = [run EXCEPT ![r] = Dead(r)]
    /\ \/ UNCHANGED stream
       \/ /\ run[r].pc \in {"rotated", "running"} /\ tail = "whole"
          /\ tail' \in {"half"} \cup (IF run[r].pc = "running" THEN Verdicts ELSE {})
          /\ torn' = TRUE /\ file' = TRUE /\ UNCHANGED <<log, owner>>

\* chug_launch and the delegate tool: one way to spawn, a process group of its
\* own, never waited for.
Launch(p) ==
    /\ p = "server" => server.pc = "idle"
    /\ p = "orchestrator" => wait.pc = "idle"
    /\ \E r \in Runs :
          /\ run[r] = Unborn /\ \A q \in Runs : q < r => run[q] # Unborn
          /\ run' = [run EXCEPT ![r] = [leader |-> "up", parent |-> p, pc |-> "launched"]]
    /\ UNCHANGED <<stream, observers>>

Is(r, l) == run[r].leader = "up" /\ run[r].pc = l
To(r, l) == run' = [run EXCEPT ![r].pc = l]

\* The run has the driver lock, and rotates the log of the session before, or
\* resumes it.
Locked(r) == \E q \in Runs \ {r} : run[q].leader = "up" /\ run[q].pc \in {"rotated", "running", "ending"}

Rotates(r) ==
    /\ Is(r, "launched") /\ ~Locked(r) /\ To(r, "rotated")
    /\ \/ UNCHANGED stream
       \/ log' = None /\ tail' = "whole" /\ file' = FALSE /\ owner' = 0 /\ torn' = FALSE
    /\ UNCHANGED observers

RunStarts(r) ==
    /\ Is(r, "rotated") /\ To(r, "running")
    /\ Appends("run_start") /\ owner' = r /\ torn' = FALSE /\ UNCHANGED observers

\* An iteration, or a goal that is not accepted: the run goes on.
Works(r) ==
    /\ Is(r, "running")
    /\ \E l \in Progress : (l = "iteration" => log.iteration < MaxIters) /\ Appends(l)
    /\ UNCHANGED <<run, owner, torn, observers>>

\* An accepted goal, or an abort of its own (a budget, a failure).
Decides(r) ==
    /\ Is(r, "running") /\ To(r, "ending")
    /\ \E l \in Verdicts : Appends(l)
    /\ UNCHANGED <<owner, torn, observers>>

\* The end: regular, by a refusal (another run has the lock), or a death.
Exits(r) == run[r].leader = "up" /\ Killed(r) /\ UNCHANGED observers

-----------------------------------------------------------------------------
(* mcp-serve: chug_cancel and chug_abort.  One call at a time.             *)

Says(r, a) == server' = NoCall /\ answer' = [said |-> a, of |-> r]

Cancel(r) ==
    /\ observer = "server" /\ server.pc = "idle" /\ run[r] # Unborn /\ answer' = NoAnswer
    /\ server' = [pc |-> "own", verb |-> "cancel", of |-> r, terminal |-> FALSE]
    /\ UNCHANGED <<observer, run, stream, servers, wait>>

\* The stream is read first ...
Abort(r) ==
    /\ observer = "server" /\ server.pc = "idle" /\ run[r] # Unborn /\ answer' = NoAnswer
    /\ server' = [pc |-> "look", verb |-> "abort", of |-> r, terminal |-> Terminal]
    /\ UNCHANGED <<observer, run, stream, servers, wait>>

\* Slip: a verdict in the stream is the end of the run.
Looks_Stream(r) ==
    /\ server.pc = "look" /\ server.of = r /\ Asks("server", r)
    /\ IF server.terminal THEN Says(r, "already-done")
       ELSE server' = [server EXCEPT !.pc = "own"] /\ UNCHANGED answer
    /\ UNCHANGED <<observer, stream, servers, wait>>

\* ... but decides only when the process is gone.
Looks(r) ==
    /\ server.pc = "look" /\ server.of = r /\ Asks("server", r)
    /\ IF server.terminal /\ ~AliveTo("server", r) THEN Says(r, "already-done")
       ELSE server' = [server EXCEPT !.pc = "own"] /\ UNCHANGED answer
    /\ UNCHANGED <<observer, stream, servers, wait>>

\* ownership_pgid: alive, leader of its group, a `chug run'.  Of a zombie ps
\* does not tell the command line.
Owns(r) ==
    /\ server.pc = "own" /\ server.of = r /\ Asks("server", r)
    /\ IF run[r].leader = "up"
       THEN server' = [server EXCEPT !.pc = "term"] /\ UNCHANGED answer
       ELSE Says(r, "not-found")
    /\ UNCHANGED <<observer, stream, servers, wait>>

\* SIGTERM to the group, which a process may ignore.
Terms(r) ==
    /\ server.pc = "term" /\ server.of = r
    /\ IF run[r].leader = "gone" THEN Says(r, "failed") /\ UNCHANGED <<run, stream>>
       ELSE /\ server' = [server EXCEPT !.pc = "grace"] /\ UNCHANGED answer
            /\ \/ run[r].leader = "up" /\ Killed(r)
               \/ UNCHANGED <<run, stream>>
    /\ UNCHANGED <<observer, servers, wait>>

\* The group is gone or was killed: an abort is recorded now.
Signalled(r) ==
    IF server.verb = "abort" THEN server' = [server EXCEPT !.pc = "record"] /\ UNCHANGED answer
    ELSE Says(r, "cancelled")

GroupGone(r) ==
    /\ server.pc = "grace" /\ server.of = r
    /\ ~AliveTo("server", r) /\ Asks("server", r) /\ Signalled(r)
    /\ UNCHANGED <<observer, stream, servers, wait>>

\* Slip: no escalation; the group is waited for.
GraceEnds_NoKill(r) ==
    /\ server.pc = "grace" /\ server.of = r /\ run[r].leader = "gone"
    /\ Says(r, "failed") /\ UNCHANGED <<run, stream>>
    /\ UNCHANGED <<observer, servers, wait>>

\* The grace is over: SIGKILL.  A group that went in the last moment makes the
\* kill fail.
GraceEnds(r) ==
    /\ server.pc = "grace" /\ server.of = r
    /\ IF run[r].leader = "gone" THEN Says(r, "failed") /\ UNCHANGED <<run, stream>>
       ELSE /\ Signalled(r)
            /\ IF run[r].leader = "up" THEN Killed(r) ELSE UNCHANGED <<run, stream>>
    /\ UNCHANGED <<observer, servers, wait>>

\* append_abort_record, which may fail before, in or at the end of its line:
\* `recorded: false'.
Records(r) ==
    /\ server.pc = "record" /\ server.of = r
    /\ \/ Appends("abort") /\ Says(r, "aborted") /\ UNCHANGED <<owner, torn>>
       \/ Says(r, "unrecorded") /\ UNCHANGED stream
       \/ /\ Says(r, "unrecorded") /\ UNCHANGED <<log, owner>>
          /\ tail' \in {"half"} \cup (IF tail = "whole" THEN {"abort"} ELSE {})
          /\ torn' = TRUE /\ file' = TRUE
    /\ UNCHANGED <<observer, run, servers, wait>>

\* Another server serves from now on; init is the parent of what this one left.
Orphaned(r) == IF run[r].parent # "server" THEN run[r]
               ELSE [run[r] EXCEPT !.parent = "init", !.leader = IF @ = "zombie" THEN "gone" ELSE @]

ServerRestarts ==
    /\ observer = "server" /\ servers < MaxServers /\ servers' = servers + 1
    /\ server' = NoCall /\ run' = [r \in Runs |-> Orphaned(r)]
    /\ UNCHANGED <<observer, stream, answer, wait>>

-----------------------------------------------------------------------------
(* The orchestrator: delegate status with wait_secs.                       *)

WaitBegins(r) ==
    /\ observer = "orchestrator" /\ wait.pc = "idle" /\ run[r] # Unborn
    /\ Asks("orchestrator", r)
    /\ \E t \in BOOLEAN :
          wait' = [pc |-> "waits", of |-> r, terminal |-> t, entry |-> Summary,
                   existed |-> file, alive |-> AliveTo("orchestrator", r)]
    /\ UNCHANGED <<observer, stream, server, servers, answer>>

\* Slip: only what changes during the wait ends it.
StateChanged_Transition ==
    \/ Summary # wait.entry
       /\ (wait.terminal => Summary.accepted # wait.entry.accepted \/ Summary.aborted # wait.entry.aborted
                            \/ (Summary.rejected /\ ~wait.entry.rejected))
    \/ file /\ ~wait.existed

\* A terminal wait is for an accepted goal or an abort, also an old one, and
\* for a first rejection; the other for anything that matters.
StateChanged ==
    \/ IF wait.terminal
       THEN \/ Summary.accepted \/ Summary.aborted
            \/ Summary.rejected /\ ~wait.entry.rejected
       ELSE Summary # wait.entry
    \/ file /\ ~wait.existed

Flipped == wait.alive /\ ~AliveTo("orchestrator", wait.of)
Lost    == ~file /\ wait.existed

\* A poll that finds nothing sleeps on: it may have reaped the run.
WaitPolls ==
    /\ wait.pc = "waits" /\ (StateChanged \/ Flipped \/ Lost)
    /\ Asks("orchestrator", wait.of)
    /\ wait' = NoWait
    /\ UNCHANGED <<observer, stream, server, servers, answer>>

Deadline ==
    /\ wait.pc = "waits" /\ Asks("orchestrator", wait.of) /\ wait' = NoWait
    /\ UNCHANGED <<observer, stream, server, servers, answer>>

-----------------------------------------------------------------------------
RunStep(r)    == \/ Rotates(r) \/ RunStarts(r) \/ Works(r) \/ Decides(r) \/ Exits(r)
ServerStep(r) == \/ Looks(r) \/ Owns(r) \/ Terms(r) \/ GroupGone(r)
                 \/ GraceEnds(r) \/ Records(r)

ControlNext ==
    \/ \E p \in {"server", "orchestrator"} : Launch(p)
    \/ \E r \in Runs : RunStep(r) \/ Cancel(r) \/ Abort(r) \/ ServerStep(r) \/ WaitBegins(r)
    \/ ServerRestarts \/ WaitPolls \/ Deadline

\* A call goes on, its grace passes, and a wait polls.  Runs owe nothing, nor
\* is a deadline waited for.
ControlFair == (\A r \in Runs : WF_controlVars(ServerStep(r))) /\ WF_controlVars(WaitPolls)

ControlSpec == ControlInit /\ [][ControlNext]_controlVars /\ ControlFair

-----------------------------------------------------------------------------
(* Properties.                                                             *)

\* What a control call said of a run is so.  "already done", "aborted" and
\* "cancelled": its process does not run, although the stream of a living run
\* can look finished, and its SIGTERM be ignored.  And a run that was aborted
\* reads as aborted afterwards, until the next one begins: unless it was
\* killed inside a line, or an earlier abort cut its own.
AbortTruthful ==
    /\ answer.said \in {"already-done", "aborted", "unrecorded", "cancelled"}
          => run[answer.of].leader \in {"zombie", "gone"}
    /\ answer.said = "aborted" /\ owner = answer.of /\ ~torn => Summary.aborted

\* Every call returns, whatever the run does about SIGTERM: with AbortTruthful,
\* after the run is gone.
AbortStops == []<>(server.pc = "idle")

\* A wait for the end does not sleep through it: a verdict, old or new, or the
\* death of a child of its own ends the wait before its deadline, unless the
\* next run begins.
Oversleeps ==
    /\ wait.pc = "waits"
    /\ \/ wait.terminal /\ (Summary.accepted \/ Summary.aborted)
       \/ wait.alive /\ run[wait.of].parent = "orchestrator" /\ run[wait.of].leader # "up"

WaitWakes == []<>~Oversleeps
=============================================================================
