-------------------------- MODULE OperationsProofs ---------------------------
(***************************************************************************)
(* Proofs about Operations, for any number of runs, servers, supervisors   *)
(* and edits: AbortTruthful of Control, from an invariant over the steps   *)
(* of a call and what it knows of the run it is about.                     *)
(***************************************************************************)
EXTENDS Operations, JudgeDaemonProofs

Ended == {"zombie", "gone"}
Claims == {"already-done", "aborted", "unrecorded", "cancelled"}

\* Only what was never launched has no process.
OnlyUnbornLackProcess == \A r \in Runs : run[r].leader = "none" => run[r] = Unborn

\* A call is about a run that was launched, and records an abort only of one
\* that has ended.
CallsKnowTheirRun ==
    server.pc # "idle" =>
        /\ server.of \in Runs /\ run[server.of].leader # "none"
        /\ server.pc = "record" => run[server.of].leader \in Ended

\* What was said of a run was said of one that has ended.
ClaimsAreOfEnded ==
    answer.said \in Claims => answer.of \in Runs /\ run[answer.of].leader \in Ended

\* Only a death inside a line leaves one unfinished.
HalvesAreTorn == tail # "whole" => torn

\* The abort line, if the segment is still that of the run, is a line.
AbortIsInLog ==
    answer.said = "aborted" /\ owner = answer.of /\ ~torn => log.aborted

IInv == /\ ControlTypeOK /\ OnlyUnbornLackProcess /\ CallsKnowTheirRun
        /\ ClaimsAreOfEnded /\ HalvesAreTorn /\ AbortIsInLog

-----------------------------------------------------------------------------
(* What the parts of a step do to processes and stream.                    *)

Process == [leader : {"none", "up", "zombie", "gone"},
            parent : {"server", "orchestrator", "init"},
            pc : {"new", "launched", "rotated", "running", "ending", "over"}]

Waits == [pc : {"idle", "waits"}, of : 0..MaxRuns, terminal : BOOLEAN,
          entry : Summaries, existed : BOOLEAN, alive : BOOLEAN]

ServerTyped ==
    server \in [pc : {"idle", "look", "own", "term", "grace", "record"},
                verb : {"none", "cancel", "abort"}, of : 0..MaxRuns, terminal : BOOLEAN]

AnswerTyped == answer \in [said : Answers, of : 0..MaxRuns]

\* No step takes a process back to life, or to before its launch.
RunsGoOn ==
    /\ run' \in [Runs -> Process]
    /\ \A r \in Runs :
          /\ run'[r].leader = "none" => run'[r] = Unborn
          /\ run[r].leader # "none" => run'[r].leader # "none"
          /\ run[r].leader \in Ended => run'[r].leader \in Ended

\* An abort that is in the log of a run that has ended stays there, or the
\* segment is over, or torn.
StreamGoesOn ==
    /\ log' \in Summaries /\ file' \in BOOLEAN /\ tail' \in {"whole", "half"} \cup Verdicts
    /\ owner' \in 0..MaxRuns /\ torn' \in BOOLEAN
    /\ tail' # "whole" => torn'
    /\ \A r \in Runs :
          /\ run[r].leader \in Ended
          /\ owner = r /\ ~torn => log.aborted
          => (owner' = r /\ ~torn' => log'.aborted)

LEMMA Bounds == MaxRuns \in Nat /\ MaxIters \in Nat /\ MaxServers \in Nat \ {0}
  BY ControlAssumption

LEMMA StandStill == IInv /\ UNCHANGED run => RunsGoOn
  BY DEF IInv, ControlTypeOK, Process, Waits, OnlyUnbornLackProcess, RunsGoOn

LEMMA NothingWritten == IInv /\ UNCHANGED stream => StreamGoesOn
  BY DEF IInv, ControlTypeOK, Process, Waits, HalvesAreTorn, StreamGoesOn, stream

LEMMA Asking ==
  ASSUME IInv, NEW p \in {"server", "orchestrator"}, NEW r \in Runs, Asks(p, r)
  PROVE  /\ RunsGoOn
         /\ run[r].leader # "none" /\ ~AliveTo(p, r) => run'[r].leader \in Ended
<1>1. run' = [run EXCEPT ![r] = Reaped(p, r)] /\ run'[r] = Reaped(p, r)
  BY DEF Asks, IInv, ControlTypeOK, Process, Waits
<1>2. /\ Reaped(p, r) \in Process
      /\ \/ Reaped(p, r) = run[r]
         \/ run[r].leader = "zombie" /\ Reaped(p, r).leader = "gone"
  <2>1. run[r] \in Process
    BY DEF IInv, ControlTypeOK, Process, Waits
  <2>2. CASE run[r].leader = "zombie" /\ run[r].parent = p
    <3>1. Reaped(p, r) = [leader |-> "gone", parent |-> "init", pc |-> run[r].pc]
      BY <2>1, <2>2 DEF Reaped, Process
    <3> QED
      BY <2>1, <2>2, <3>1 DEF Process
  <2>3. CASE ~(run[r].leader = "zombie" /\ run[r].parent = p)
    <3>1. Reaped(p, r) = run[r]
      BY <2>3 DEF Reaped
    <3> QED
      BY <2>1, <3>1
  <2> QED
    BY <2>2, <2>3
<1>3. RunsGoOn
  BY <1>1, <1>2 DEF RunsGoOn, Ended, IInv, ControlTypeOK, Process, Waits, OnlyUnbornLackProcess
<1> QED
  BY <1>1, <1>2, <1>3 DEF AliveTo, Ended, IInv, ControlTypeOK, Process, Waits

LEMMA Killing ==
  ASSUME IInv, NEW r \in Runs, run[r].leader = "up", Killed(r)
  PROVE  RunsGoOn /\ StreamGoesOn /\ run'[r].leader \in Ended
<1>1. run' = [run EXCEPT ![r] = Dead(r)] /\ run'[r] = Dead(r)
  BY DEF Killed, IInv, ControlTypeOK, Process, Waits
<1>2. /\ Dead(r) \in Process
      /\ Dead(r).leader \in Ended
  BY ZenonT(60) DEF Dead, Ended, IInv, ControlTypeOK, Process, Waits
<1>3. RunsGoOn
  BY <1>1, <1>2 DEF RunsGoOn, Ended, IInv, ControlTypeOK, Process, Waits, OnlyUnbornLackProcess
<1>4. StreamGoesOn
  <2>1. CASE UNCHANGED stream
    BY <2>1, NothingWritten
  <2>2. CASE ~UNCHANGED stream
    <3>1. /\ tail' \in {"half"} \cup Verdicts /\ torn' = TRUE /\ file' = TRUE
          /\ UNCHANGED <<log, owner>>
      BY <2>2 DEF Killed, Verdicts
    <3> QED
      BY <3>1 DEF StreamGoesOn, IInv, ControlTypeOK, Process, Waits
  <2> QED
    BY <2>1, <2>2
<1> QED
  BY <1>1, <1>2, <1>3, <1>4

\* A line leaves a whole tail; only that of a start takes an abort back.
LEMMA Appending ==
  ASSUME IInv, NEW l \in {"run_start"} \cup Progress \cup Verdicts, Appends(l),
         l = "iteration" => log.iteration < MaxIters
  PROVE  /\ log' \in Summaries /\ file' \in BOOLEAN /\ tail' = "whole"
         /\ l # "run_start" /\ log.aborted => log'.aborted
         /\ l = "abort" /\ tail = "whole" => log'.aborted
<1>1. Reads(log, l) \in Summaries
  <2>1. log \in Summaries /\ log.iteration \in 0..MaxIters
    BY DEF Summaries, IInv, ControlTypeOK, Process, Waits
  <2>2. CASE l = "run_start"
    BY <2>1, <2>2 DEF Reads, Summaries, None
  <2>3. CASE l = "iteration"
    <3>1. log.iteration + 1 \in 0..MaxIters
      BY <2>1, <2>3, Bounds
    <3> QED
      BY <2>1, <2>3, <3>1 DEF Reads, Summaries
  <2>4. CASE l \in {"rejected", "accepted", "abort"}
    BY <2>1, <2>4 DEF Reads, Summaries
  <2> QED
    BY <2>2, <2>3, <2>4 DEF Progress, Verdicts
<1>2. /\ l # "run_start" /\ log.aborted => Reads(log, l).aborted
      /\ l = "abort" => Reads(log, l).aborted
  BY DEF Reads, Summaries, Progress, Verdicts, IInv, ControlTypeOK, Process, Waits
<1> QED
  BY <1>1, <1>2 DEF Appends, IInv, ControlTypeOK, Process, Waits

\* A step keeps the invariant if it does so for the call and the answer it
\* changes.
LEMMA Frame ==
  ASSUME IInv, RunsGoOn, StreamGoesOn, UNCHANGED observer,
         UNCHANGED servers \/ servers' \in 0..MaxServers,
         UNCHANGED wait \/ wait' \in Waits,
         UNCHANGED server \/ (ServerTyped /\ CallsKnowTheirRun)',
         UNCHANGED answer \/ (AnswerTyped /\ ClaimsAreOfEnded /\ AbortIsInLog)'
  PROVE  IInv'
<1>1. (ServerTyped /\ CallsKnowTheirRun)'
  BY DEF IInv, ControlTypeOK, Process, Waits, ServerTyped, CallsKnowTheirRun, RunsGoOn
<1>2. (AnswerTyped /\ ClaimsAreOfEnded)'
  BY DEF IInv, ControlTypeOK, Process, Waits, AnswerTyped, ClaimsAreOfEnded, RunsGoOn
<1>3. AbortIsInLog'
  <2>1. CASE UNCHANGED answer
    BY <2>1 DEF IInv, ClaimsAreOfEnded, AbortIsInLog, StreamGoesOn, Claims
  <2> QED
    BY <2>1
<1>4. ControlTypeOK'
  BY <1>1, <1>2 DEF IInv, ControlTypeOK, Process, Waits, ServerTyped, AnswerTyped, RunsGoOn, StreamGoesOn
<1>5. (OnlyUnbornLackProcess /\ HalvesAreTorn)'
  BY DEF OnlyUnbornLackProcess, HalvesAreTorn, RunsGoOn, StreamGoesOn
<1> QED
  BY <1>1, <1>2, <1>3, <1>4, <1>5 DEF IInv

-----------------------------------------------------------------------------
(* The steps.                                                              *)

LEMMA Start == Init => IInv
<1> SUFFICES ASSUME ControlInit PROVE IInv
  BY DEF Init
<1>1. ControlTypeOK
  <2>1. None \in Summaries /\ 0 \in 0..MaxRuns
    BY Bounds DEF None, Summaries
  <2>2. wait \in Waits
    BY <2>1 DEF ControlInit, NoWait, Waits
  <2>3. ServerTyped /\ AnswerTyped
    BY <2>1 DEF ControlInit, NoCall, NoAnswer, ServerTyped, AnswerTyped, Answers
  <2>4. run \in [Runs -> Process]
    BY DEF ControlInit, Unborn, Process
  <2>5. servers \in 0..MaxServers
    BY Bounds DEF ControlInit
  <2> QED
    BY <2>1, <2>2, <2>3, <2>4, <2>5 DEF ControlInit, ControlTypeOK, Process, Waits, ServerTyped, AnswerTyped
<1> QED
  BY <1>1 DEF ControlInit, IInv, OnlyUnbornLackProcess, CallsKnowTheirRun, ClaimsAreOfEnded,
     HalvesAreTorn, AbortIsInLog, Unborn, NoCall, NoAnswer, Claims

\* A run, and whoever launches one.
LEMMA RunSteps ==
  ASSUME IInv, NEW r \in Runs, RunStep(r) PROVE IInv'
<1>1. CASE Rotates(r)
  <2>1. /\ UNCHANGED observers /\ run[r].leader = "up"
        /\ run' = [run EXCEPT ![r].pc = "rotated"]
    BY <1>1 DEF Rotates, Is, To
  <2>2. RunsGoOn
    BY <2>1 DEF IInv, ControlTypeOK, Process, Waits, OnlyUnbornLackProcess, RunsGoOn, Ended
  <2>3. StreamGoesOn
    <3>1. CASE UNCHANGED stream
      BY <3>1, NothingWritten
    <3>2. CASE /\ log' = None /\ tail' = "whole" /\ file' = FALSE
               /\ owner' = 0 /\ torn' = FALSE
      <4>1. None \in Summaries /\ 0 \in 0..MaxRuns /\ 0 \notin Runs
        BY Bounds DEF None, Summaries, Runs
      <4> QED
        BY <3>2, <4>1 DEF StreamGoesOn
    <3> QED
      BY <1>1, <3>1, <3>2 DEF Rotates
  <2> QED
    BY <2>1, <2>2, <2>3, Frame DEF observers
<1>2. CASE RunStarts(r)
  <2>1. /\ UNCHANGED observers /\ run[r].leader = "up" /\ owner' = r /\ torn' = FALSE
        /\ run' = [run EXCEPT ![r].pc = "running"] /\ Appends("run_start")
    BY <1>2 DEF RunStarts, Is, To
  <2>2. RunsGoOn
    BY <2>1 DEF IInv, ControlTypeOK, Process, Waits, OnlyUnbornLackProcess, RunsGoOn, Ended
  <2>3. StreamGoesOn
    <3>1. /\ log' \in Summaries /\ file' \in BOOLEAN /\ tail' = "whole"
          /\ r \in 0..MaxRuns /\ run[r].leader \notin Ended
      BY <2>1, Appending, Bounds DEF Runs, Ended
    <3> QED
      BY <2>1, <3>1 DEF StreamGoesOn
  <2> QED
    BY <2>1, <2>2, <2>3, Frame DEF observers
<1>3. CASE Works(r) \/ Decides(r)
  <2>1. /\ UNCHANGED observers /\ UNCHANGED <<owner, torn>> /\ run[r].leader = "up"
        /\ UNCHANGED run \/ run' = [run EXCEPT ![r].pc = "ending"]
    BY <1>3 DEF Works, Decides, Is, To, observers
  <2>2. PICK l \in Progress \cup Verdicts :
          (l = "iteration" => log.iteration < MaxIters) /\ Appends(l)
    BY <1>3 DEF Works, Decides, Verdicts
  <2>3. RunsGoOn
    BY <2>1 DEF IInv, ControlTypeOK, Process, Waits, OnlyUnbornLackProcess, RunsGoOn, Ended
  <2>4. StreamGoesOn
    <3>1. l # "run_start"
      BY DEF Progress, Verdicts
    <3> QED
      BY <2>1, <2>2, <3>1, Appending DEF StreamGoesOn, IInv, ControlTypeOK, Process, Waits
  <2> QED
    BY <2>1, <2>3, <2>4, Frame DEF observers
<1>4. CASE Exits(r)
  BY <1>4, Killing, Frame DEF Exits, observers
<1> QED
  BY <1>1, <1>2, <1>3, <1>4 DEF RunStep

LEMMA Launching ==
  ASSUME IInv, NEW p \in {"server", "orchestrator"}, Launch(p) PROVE IInv'
<1>1. PICK r \in Runs :
        /\ run[r] = Unborn
        /\ run' = [run EXCEPT ![r] = [leader |-> "up", parent |-> p, pc |-> "launched"]]
  BY DEF Launch
<1>2. RunsGoOn
  BY <1>1 DEF IInv, ControlTypeOK, Process, Waits, OnlyUnbornLackProcess, RunsGoOn, Ended, Unborn
<1> QED
  BY <1>2, NothingWritten, Frame DEF Launch, observers

\* The server takes a call, or another server takes over.
LEMMA CallBegins ==
  ASSUME IInv, NEW r \in Runs, Cancel(r) \/ Abort(r) PROVE IInv'
<1>1. run[r].leader # "none"
  BY DEF Cancel, Abort, IInv, OnlyUnbornLackProcess
<1>2. Terminal \in BOOLEAN
  BY DEF Terminal
<1>3. (ServerTyped /\ CallsKnowTheirRun)'
  <2>1. r \in 0..MaxRuns /\ run' = run
    BY Bounds DEF Runs, Cancel, Abort
  <2>2. CASE Cancel(r)
    BY <1>1, <2>1, <2>2 DEF Cancel, ServerTyped, CallsKnowTheirRun
  <2>3. CASE Abort(r)
    BY <1>1, <1>2, <2>1, <2>3 DEF Abort, ServerTyped, CallsKnowTheirRun
  <2> QED
    BY <2>2, <2>3
<1>4. (AnswerTyped /\ ClaimsAreOfEnded /\ AbortIsInLog)'
  BY Bounds DEF Cancel, Abort, AnswerTyped, ClaimsAreOfEnded, AbortIsInLog, NoAnswer,
     Answers, Claims
<1> QED
  BY <1>3, <1>4, StandStill, NothingWritten, Frame DEF Cancel, Abort

LEMMA Restarting ==
  ASSUME IInv, ServerRestarts PROVE IInv'
<1>1. run' = [r \in Runs |-> Orphaned(r)]
  BY DEF ServerRestarts
<1>2. ASSUME NEW r \in Runs
      PROVE  /\ Orphaned(r) \in Process
             /\ \/ Orphaned(r) = run[r]
                \/ run[r].parent = "server"
                   /\ Orphaned(r).leader = IF run[r].leader = "zombie" THEN "gone" ELSE run[r].leader
  <2>1. run[r] \in Process
    BY DEF IInv, ControlTypeOK, Process, Waits
  <2>2. CASE run[r].parent # "server"
    <3>1. Orphaned(r) = run[r]
      BY <2>2 DEF Orphaned
    <3> QED
      BY <2>1, <3>1
  <2>3. CASE run[r].parent = "server"
    <3>1. Orphaned(r) = [leader |-> IF run[r].leader = "zombie" THEN "gone" ELSE run[r].leader,
                         parent |-> "init", pc |-> run[r].pc]
      BY <2>1, <2>3 DEF Orphaned, Process
    <3> QED
      BY <2>1, <2>3, <3>1 DEF Process
  <2> QED
    BY <2>2, <2>3
<1>3. RunsGoOn
  <2>1. \A r \in Runs : run[r].leader = "none" => run[r].parent = "init"
    BY DEF IInv, OnlyUnbornLackProcess, Unborn
  <2> QED
    BY <1>1, <1>2, <2>1 DEF IInv, OnlyUnbornLackProcess, RunsGoOn, Ended
<1>4. (ServerTyped /\ CallsKnowTheirRun)'
  BY Bounds DEF ServerRestarts, ServerTyped, CallsKnowTheirRun, NoCall
<1>5. servers' \in 0..MaxServers
  BY Bounds DEF ServerRestarts, IInv, ControlTypeOK, Process, Waits
<1> QED
  BY <1>3, <1>4, <1>5, NothingWritten, Frame DEF ServerRestarts

\* What is said now of a run that has ended.
LEMMA Saying ==
  ASSUME IInv, RunsGoOn, NEW r \in Runs, NEW a \in Answers, Says(r, a),
         a \in Claims => run'[r].leader \in Ended,
         a = "aborted" /\ owner' = r /\ ~torn' => log'.aborted
  PROVE  /\ (ServerTyped /\ CallsKnowTheirRun)'
         /\ (AnswerTyped /\ ClaimsAreOfEnded /\ AbortIsInLog)'
<1>1. r \in 0..MaxRuns
  BY Bounds DEF Runs
<1>2. server' = NoCall /\ answer'.said = a /\ answer'.of = r
  BY DEF Says
<1> QED
  BY <1>1, <1>2, Bounds DEF Says, NoCall, ServerTyped, CallsKnowTheirRun, AnswerTyped,
     ClaimsAreOfEnded, AbortIsInLog

\* The call goes on, about the same run.
LEMMA CallGoesOn ==
  ASSUME IInv, RunsGoOn, NEW r \in Runs, server.of = r, server.pc # "idle",
         NEW l \in {"own", "term", "grace", "record"}, server' = [server EXCEPT !.pc = l],
         l = "record" => run'[r].leader \in Ended
  PROVE  (ServerTyped /\ CallsKnowTheirRun)'
<1>1. ServerTyped
  BY DEF IInv, ControlTypeOK, Process, Waits, ServerTyped
<1>2. ServerTyped' /\ server'.of = r /\ server'.pc = l
  BY <1>1 DEF ServerTyped
<1>3. run'[r].leader # "none"
  BY DEF IInv, CallsKnowTheirRun, RunsGoOn
<1> QED
  BY <1>2, <1>3 DEF CallsKnowTheirRun

\* The group has gone or been killed.
LEMMA Signalling ==
  ASSUME IInv, RunsGoOn, NEW r \in Runs, server.of = r, server.pc # "idle", Signalled(r),
         run'[r].leader \in Ended
  PROVE  /\ (ServerTyped /\ CallsKnowTheirRun)'
         /\ UNCHANGED answer \/ (AnswerTyped /\ ClaimsAreOfEnded /\ AbortIsInLog)'
<1>1. CASE server.verb = "abort"
  BY <1>1, CallGoesOn DEF Signalled
<1>2. CASE server.verb # "abort"
  <2>1. Says(r, "cancelled") /\ "cancelled" \in Answers
    BY <1>2 DEF Signalled, Answers
  <2> QED
    BY <2>1, Saying
<1> QED
  BY <1>1, <1>2

LEMMA ServerSteps ==
  ASSUME IInv, NEW r \in Runs, ServerStep(r) PROVE IInv'
<1>1. /\ server.of = r /\ server.pc # "idle" /\ run[r].leader # "none"
      /\ server.pc = "record" => run[r].leader \in Ended
      /\ UNCHANGED <<observer, servers, wait>>
  BY DEF ServerStep, Looks, Owns, Terms, GroupGone, GraceEnds, Records, IInv, CallsKnowTheirRun
<1>2. CASE Looks(r)
  <2>1. /\ RunsGoOn /\ StreamGoesOn
        /\ ~AliveTo("server", r) => run'[r].leader \in Ended
    BY <1>1, <1>2, Asking, NothingWritten DEF Looks
  <2>2. CASE server.terminal /\ ~AliveTo("server", r)
    <3>1. Says(r, "already-done") /\ "already-done" \in Answers
      BY <1>2, <2>2 DEF Looks, Answers
    <3> QED
      BY <1>1, <2>1, <2>2, <3>1, Saying, Frame
  <2>3. CASE ~(server.terminal /\ ~AliveTo("server", r))
    BY <1>1, <1>2, <2>1, <2>3, CallGoesOn, Frame DEF Looks
  <2> QED
    BY <2>2, <2>3
<1>3. CASE Owns(r)
  <2>1. RunsGoOn /\ StreamGoesOn
    BY <1>3, Asking, NothingWritten DEF Owns
  <2>2. CASE run[r].leader = "up"
    BY <1>1, <1>3, <2>1, <2>2, CallGoesOn, Frame DEF Owns
  <2>3. CASE run[r].leader # "up"
    <3>1. Says(r, "not-found") /\ "not-found" \in Answers \ Claims
      BY <1>3, <2>3 DEF Owns, Answers, Claims
    <3> QED
      BY <1>1, <2>1, <3>1, Saying, Frame
  <2> QED
    BY <2>2, <2>3
<1>4. ASSUME Says(r, "failed"), UNCHANGED <<run, stream>> PROVE IInv'
  <2>1. "failed" \in Answers \ Claims
    BY DEF Answers, Claims
  <2> QED
    BY <1>1, <1>4, <2>1, StandStill, NothingWritten, Saying, Frame
<1>5. CASE Terms(r)
  <2>1. CASE run[r].leader = "gone"
    BY <1>4, <1>5, <2>1 DEF Terms
  <2>2. CASE run[r].leader # "gone"
    <3>1. server' = [server EXCEPT !.pc = "grace"] /\ UNCHANGED answer
      BY <1>5, <2>2 DEF Terms
    <3>2. RunsGoOn /\ StreamGoesOn
      BY <1>5, <2>2, Killing, StandStill, NothingWritten DEF Terms
    <3> QED
      BY <1>1, <3>1, <3>2, CallGoesOn, Frame
  <2> QED
    BY <2>1, <2>2
<1>6. CASE GroupGone(r)
  <2>1. RunsGoOn /\ StreamGoesOn /\ run'[r].leader \in Ended
    BY <1>1, <1>6, Asking, NothingWritten DEF GroupGone
  <2> QED
    BY <1>1, <1>6, <2>1, Signalling, Frame DEF GroupGone
<1>7. CASE GraceEnds(r)
  <2>1. CASE run[r].leader = "gone"
    BY <1>4, <1>7, <2>1 DEF GraceEnds
  <2>2. CASE run[r].leader = "up"
    <3>1. Signalled(r) /\ Killed(r)
      BY <1>7, <2>2 DEF GraceEnds
    <3> QED
      BY <1>1, <2>2, <3>1, Killing, Signalling, Frame
  <2>3. CASE run[r].leader = "zombie"
    <3>1. Signalled(r) /\ UNCHANGED <<run, stream>>
      BY <1>7, <2>3 DEF GraceEnds
    <3>2. run'[r].leader \in Ended
      BY <2>3, <3>1 DEF Ended
    <3> QED
      BY <1>1, <3>1, <3>2, StandStill, NothingWritten, Signalling, Frame
  <2> QED
    BY <1>1, <2>1, <2>2, <2>3 DEF IInv, ControlTypeOK, Process, Waits
<1>8. CASE Records(r)
  <2>1. RunsGoOn /\ run'[r].leader \in Ended
    BY <1>1, <1>8, StandStill DEF Records
  <2>2. CASE Appends("abort") /\ Says(r, "aborted") /\ UNCHANGED <<owner, torn>>
    <3>1. "aborted" \in Answers /\ "abort" \in Verdicts
      BY DEF Answers, Verdicts
    <3>2. /\ log' \in Summaries /\ file' \in BOOLEAN /\ tail' = "whole"
          /\ log.aborted => log'.aborted
          /\ tail = "whole" => log'.aborted
      BY <2>2, <3>1, Appending
    <3>3. StreamGoesOn
      BY <2>2, <3>2 DEF StreamGoesOn, IInv, ControlTypeOK, Process, Waits
    <3>4. ~torn' => log'.aborted
      BY <2>2, <3>2 DEF IInv, HalvesAreTorn
    <3> QED
      BY <1>1, <2>1, <2>2, <3>1, <3>3, <3>4, Saying, Frame
  <2>3. CASE UNCHANGED stream /\ Says(r, "unrecorded")
    <3>1. "unrecorded" \in Answers
      BY DEF Answers
    <3> QED
      BY <1>1, <2>1, <2>3, <3>1, NothingWritten, Saying, Frame
  <2>4. CASE /\ Says(r, "unrecorded") /\ UNCHANGED <<log, owner>>
             /\ tail' \in {"half", "abort"} /\ torn' = TRUE /\ file' = TRUE
    <3>1. "unrecorded" \in Answers
      BY DEF Answers
    <3>2. StreamGoesOn
      BY <2>4 DEF StreamGoesOn, Verdicts, IInv, ControlTypeOK, Process, Waits
    <3> QED
      BY <1>1, <2>1, <2>4, <3>1, <3>2, Saying, Frame
  <2> QED
    BY <1>8, <2>2, <2>3, <2>4 DEF Records
<1> QED
  BY <1>2, <1>3, <1>5, <1>6, <1>7, <1>8 DEF ServerStep

\* The orchestrator only asks and reads.
LEMMA WaitBeginning ==
  ASSUME IInv, NEW r \in Runs, WaitBegins(r) PROVE IInv'
<1>1. Summary \in Summaries
  <2>1. log \in Summaries
    BY DEF IInv, ControlTypeOK, Process, Waits
  <2>2. CASE tail \in Verdicts
    BY <2>1, <2>2 DEF Summary, Reads, Summaries, Verdicts
  <2> QED
    BY <2>1, <2>2 DEF Summary
<1>2. RunsGoOn /\ StreamGoesOn
  BY Asking, NothingWritten DEF WaitBegins
<1>3. wait' \in Waits
  <2>1. r \in 0..MaxRuns /\ file \in BOOLEAN /\ AliveTo("orchestrator", r) \in BOOLEAN
    BY Bounds DEF Runs, AliveTo, IInv, ControlTypeOK, Process, Waits
  <2> QED
    BY <1>1, <2>1 DEF WaitBegins, Waits
<1> QED
  BY <1>2, <1>3, Frame DEF WaitBegins

LEMMA WaitEnding ==
  ASSUME IInv, WaitPolls \/ Deadline PROVE IInv'
<1>1. /\ Asks("orchestrator", wait.of) /\ wait' = NoWait
      /\ UNCHANGED <<observer, stream, server, servers, answer>>
  BY DEF WaitPolls, Deadline
<1>2. RunsGoOn /\ StreamGoesOn
  <2>1. CASE wait.of \in Runs
    BY <1>1, <2>1, Asking, NothingWritten
  <2>2. CASE wait.of \notin Runs
    BY <1>1, <2>2, StandStill, NothingWritten DEF Asks, IInv, ControlTypeOK, Process, Waits
  <2> QED
    BY <2>1, <2>2
<1>3. wait' \in Waits
  <2>1. None \in Summaries
    BY Bounds DEF None, Summaries
  <2> QED
    BY <1>1, <2>1, Bounds DEF NoWait, Waits
<1> QED
  BY <1>1, <1>2, <1>3, Frame

LEMMA Step == IInv /\ [Next]_vars => IInv'
<1> SUFFICES ASSUME IInv, [Next]_vars PROVE IInv'
  OBVIOUS
<1>1. CASE ControlNext
  <2>1. CASE \E p \in {"server", "orchestrator"} : Launch(p)
    BY <2>1, Launching
  <2>2. ASSUME NEW r \in Runs, RunStep(r) PROVE IInv'
    BY <2>2, RunSteps
  <2>3. ASSUME NEW r \in Runs, Cancel(r) \/ Abort(r) PROVE IInv'
    BY <2>3, CallBegins
  <2>4. ASSUME NEW r \in Runs, ServerStep(r) PROVE IInv'
    BY <2>4, ServerSteps
  <2>5. ASSUME NEW r \in Runs, WaitBegins(r) PROVE IInv'
    BY <2>5, WaitBeginning
  <2>6. CASE ServerRestarts
    BY <2>6, Restarting
  <2>7. CASE WaitPolls \/ Deadline
    BY <2>7, WaitEnding
  <2> QED
    BY <1>1, <2>1, <2>2, <2>3, <2>4, <2>5, <2>6, <2>7 DEF ControlNext
<1>2. CASE UNCHANGED controlVars
  <2>1. RunsGoOn /\ StreamGoesOn
    BY <1>2, StandStill, NothingWritten DEF controlVars, stream
  <2> QED
    BY <1>2, <2>1, Frame DEF controlVars
<1> QED
  BY <1>1, <1>2 DEF Next, vars

LEMMA Inductive == Spec => []IInv
  BY Start, Step, PTL DEF Spec

-----------------------------------------------------------------------------
(* Loopd: the types, and what the pidfile is worth.                        *)

Standings == [pc : {"off", "check"} \cup Past, fails : 0..2]

\* As long as no two supervisors are past the pidfile, it names the one that is,
\* from the moment it has written it.
PidfileNames ==
    ~beside => /\ \A s, o \in Supervisors : sup[s].pc \in Past /\ sup[o].pc \in Past => s = o
               /\ \A s \in Supervisors : sup[s].pc \in Past \ {"write"} => pidfile = s

LoopdInv == LoopdTypeOK /\ PidfileNames

LEMMA LoopdInitially == LoopdInit => LoopdInv
<1> SUFFICES ASSUME LoopdInit PROVE LoopdInv
  OBVIOUS
<1>1. Off \in Standings /\ Off.pc \notin Past
  BY DEF Off, Standings, Past, Within
<1>2. LoopdTypeOK
  <2>1. sup \in [Supervisors -> Standings]
    BY <1>1 DEF LoopdInit
  <2>2. begun \in 0..MaxLoops /\ edits \in 0..MaxEdits
    BY LoopdAssumption DEF LoopdInit
  <2>3. script \in [Supervisors -> BOOLEAN]
    BY DEF LoopdInit
  <2>4. pidfile = Nobody /\ driver = Nobody /\ STOP \in BOOLEAN /\ beside \in BOOLEAN
    BY DEF LoopdInit
  <2> QED BY <2>1, <2>2, <2>3, <2>4 DEF LoopdTypeOK, Standings
<1>3. \A s \in Supervisors : sup[s].pc \notin Past
  BY <1>1 DEF LoopdInit
<1> QED BY <1>2, <1>3 DEF LoopdInv, PidfileNames

\* The ways a supervisor moves: to another place, perhaps with another count,
\* while the others stay where they are.
LEMMA SupMoves ==
  ASSUME LoopdInv, NEW s \in Supervisors
  PROVE  /\ \A l \in {"off", "check"} \cup Past : Goto(s, l) =>
              \E q \in Standings : q.pc = l /\ sup' = [sup EXCEPT ![s] = q]
         /\ Fails(s) => \/ /\ pidfile' = pidfile
                           /\ \E q \in Standings : q.pc = "sleep" /\ sup' = [sup EXCEPT ![s] = q]
                        \/ Leaves(s)
         /\ Succeeds(s) => \E q \in Standings : q.pc = "sleep" /\ sup' = [sup EXCEPT ![s] = q]
         /\ Off \in Standings /\ [Off EXCEPT !.pc = "check"] \in Standings
         /\ Off.pc = "off" /\ [Off EXCEPT !.pc = "check"].pc = "check"
<1>0. sup \in [Supervisors -> Standings] /\ sup[s] \in Standings
  BY DEF LoopdInv, LoopdTypeOK, Standings
<1>1. ASSUME NEW l \in {"off", "check"} \cup Past, Goto(s, l)
      PROVE  \E q \in Standings : q.pc = l /\ sup' = [sup EXCEPT ![s] = q]
  <2> DEFINE q == [sup[s] EXCEPT !.pc = l]
  <2>1. q \in Standings /\ q.pc = l
    BY <1>0 DEF Standings
  <2>2. sup' = [sup EXCEPT ![s] = q]
    BY <1>0, <1>1 DEF Goto
  <2> QED BY <2>1, <2>2
<1>2. ASSUME Fails(s)
      PROVE  \/ /\ pidfile' = pidfile
                /\ \E q \in Standings : q.pc = "sleep" /\ sup' = [sup EXCEPT ![s] = q]
             \/ Leaves(s)
  <2>1. CASE sup[s].fails < 2
    <3> DEFINE q == [sup[s] EXCEPT !.pc = "sleep", !.fails = @ + 1]
    <3>0. /\ sup[s].fails \in 0..2 /\ sup[s].fails + 1 \in 0..2
          /\ "sleep" \in {"off", "check"} \cup Past
      BY <1>0, <2>1 DEF Standings, Past, Within
    <3>1. q \in Standings /\ q.pc = "sleep"
      BY <1>0, <3>0 DEF Standings
    <3>2. sup' = [sup EXCEPT ![s] = q] /\ pidfile' = pidfile
      BY <1>0, <1>2, <2>1 DEF Fails
    <3> QED BY <3>1, <3>2
  <2> QED BY <1>2, <2>1 DEF Fails
<1>3. ASSUME Succeeds(s)
      PROVE  \E q \in Standings : q.pc = "sleep" /\ sup' = [sup EXCEPT ![s] = q]
  <2> DEFINE q == [sup[s] EXCEPT !.pc = "sleep", !.fails = 0]
  <2>0. "sleep" \in {"off", "check"} \cup Past /\ 0 \in 0..2
    BY DEF Past, Within
  <2>1. q \in Standings /\ q.pc = "sleep"
    BY <1>0, <2>0 DEF Standings
  <2>2. sup' = [sup EXCEPT ![s] = q]
    BY <1>0, <1>3 DEF Succeeds
  <2> QED BY <2>1, <2>2
<1>4. /\ Off \in Standings /\ [Off EXCEPT !.pc = "check"] \in Standings
      /\ Off.pc = "off" /\ [Off EXCEPT !.pc = "check"].pc = "check"
  BY DEF Off, Standings
<1> QED BY <1>1, <1>2, <1>3, <1>4

\* Only one moves, and unless it passes the pidfile it was past it before.
LEMMA OneMoves ==
  ASSUME LoopdInv, NEW s \in Supervisors, NEW q \in Standings, sup' = [sup EXCEPT ![s] = q],
         q.pc \in Past => sup[s].pc \in Past,
         q.pc \in Past \ {"write"} => \/ pidfile' = s
                                      \/ pidfile' = pidfile /\ sup[s].pc # "write",
         \/ pidfile' = pidfile
         \/ sup[s].pc \in Past,
         beside' = beside
  PROVE  sup' \in [Supervisors -> Standings] /\ PidfileNames'
<1>1. sup \in [Supervisors -> Standings] /\ PidfileNames
  BY DEF LoopdInv, LoopdTypeOK, Standings
<1>2. sup' \in [Supervisors -> Standings] /\ sup'[s] = q /\ \A o \in Supervisors \ {s} : sup'[o] = sup[o]
  BY <1>1
<1>3. ASSUME ~beside PROVE PidfileNames'
  <2>1. /\ \A r, o \in Supervisors : sup[r].pc \in Past /\ sup[o].pc \in Past => r = o
        /\ \A r \in Supervisors : sup[r].pc \in Past \ {"write"} => pidfile = r
    BY <1>1, <1>3 DEF PidfileNames
  <2>2. \A r \in Supervisors : sup'[r].pc \in Past => sup[r].pc \in Past
    BY <1>2
  <2>3. \A r, o \in Supervisors : sup'[r].pc \in Past /\ sup'[o].pc \in Past => r = o
    BY <2>1, <2>2
  <2>4. ASSUME NEW r \in Supervisors, sup'[r].pc \in Past \ {"write"} PROVE pidfile' = r
    <3>1. CASE r = s
      BY <1>2, <2>1, <2>4, <3>1
    <3>2. CASE r # s
      <4>1. sup'[r] = sup[r] /\ pidfile = r
        BY <1>2, <2>1, <2>4, <3>2
      <4>2. sup[s].pc \notin Past
        BY <2>1, <2>4, <3>2, <4>1
      <4> QED BY <4>1, <4>2
    <3> QED BY <3>1, <3>2
  <2> QED BY <2>3, <2>4 DEF PidfileNames
<1> QED BY <1>2, <1>3 DEF PidfileNames

\* The check lets a second one pass only beside one that has not written yet.
LEMMA ChecksPidfile ==
  ASSUME LoopdInv, NEW s \in Supervisors, CheckPidfile(s)
  PROVE  LoopdInv' /\ (~beside /\ beside' => \E o \in Supervisors : Stands(o, "write"))
<1>0. /\ sup \in [Supervisors -> Standings] /\ LoopdTypeOK /\ PidfileNames
      /\ sup[s].pc = "check" /\ "check" \notin Past /\ "off" \notin Past /\ "write" \in Past
  BY DEF LoopdInv, LoopdTypeOK, Standings, CheckPidfile, Stands, Past, Within
<1>1. CASE pidfile \notin {s, Nobody} /\ ~Stands(pidfile, "off")
  <2>1. sup' = [sup EXCEPT ![s] = Off] /\ UNCHANGED <<pidfile, STOP, driver, script, begun, edits, beside>>
    BY <1>1 DEF CheckPidfile
  <2>2. sup' \in [Supervisors -> Standings] /\ PidfileNames'
    BY <1>0, <2>1, SupMoves, OneMoves
  <2> QED BY <1>0, <2>1, <2>2 DEF LoopdInv, LoopdTypeOK, Standings
<1>2. CASE ~(pidfile \notin {s, Nobody} /\ ~Stands(pidfile, "off"))
  <2>1. /\ Goto(s, "write") /\ UNCHANGED <<pidfile, STOP, driver, script, begun, edits>>
        /\ beside' = (beside \/ \E o \in Supervisors \ {s} : sup[o].pc \in Past)
    BY <1>2 DEF CheckPidfile
  <2>2. PICK q \in Standings : q.pc = "write" /\ sup' = [sup EXCEPT ![s] = q]
    BY <1>0, <2>1, SupMoves
  <2>3. sup' \in [Supervisors -> Standings] /\ sup'[s] = q /\ \A o \in Supervisors \ {s} : sup'[o] = sup[o]
    BY <1>0, <2>2
  <2>4. beside' \in BOOLEAN
    BY <2>1 DEF LoopdInv, LoopdTypeOK
  <2>5. ASSUME ~beside' PROVE PidfileNames'
    <3>1. ~beside /\ \A o \in Supervisors \ {s} : sup'[o].pc \notin Past
      BY <2>1, <2>3, <2>5
    <3>2. sup'[s].pc = "write"
      BY <2>2, <2>3
    <3> QED BY <3>1, <3>2 DEF PidfileNames
  <2>6. ASSUME ~beside, beside' PROVE \E o \in Supervisors : Stands(o, "write")
    <3>1. PICK o \in Supervisors \ {s} : sup[o].pc \in Past
      BY <2>1, <2>6
    <3>2. CASE sup[o].pc # "write"
      <4>1. pidfile = o
        BY <1>0, <2>6, <3>1, <3>2 DEF PidfileNames
      <4>2. ~Stands(pidfile, "off") /\ pidfile \notin {s, Nobody}
        BY <1>0, <3>1, <4>1, LoopdAssumption DEF Stands
      <4> QED BY <1>2, <4>2
    <3> QED BY <3>1, <3>2 DEF Stands
  <2>7. LoopdTypeOK'
    BY <1>0, <2>1, <2>3, <2>4 DEF LoopdTypeOK, Standings
  <2> QED BY <2>5, <2>6, <2>7 DEF LoopdInv, PidfileNames
<1> QED BY <1>1, <1>2

LEMMA LoopdStep ==
  ASSUME LoopdInv, [LoopdNext]_loopdVars
  PROVE  LoopdInv' /\ (~beside /\ beside' => \E o \in Supervisors : Stands(o, "write"))
<1>0. /\ sup \in [Supervisors -> Standings] /\ LoopdTypeOK /\ PidfileNames
      /\ beside \in BOOLEAN
  BY DEF LoopdInv, LoopdTypeOK, Standings
<1>a. ASSUME NEW s \in Supervisors PROVE sup[s].pc \in {"off", "check"} \cup Past
  BY <1>0 DEF Standings
<1>b. /\ "check" \notin Past /\ "off" \notin Past
      /\ {"write", "clear", "top", "body", "probe", "build", "cycle", "sleep"} = Past
  BY DEF Past, Within
<1>1. ASSUME NEW s \in Supervisors, StartLoop(s) PROVE LoopdInv' /\ beside' = beside
  <2>1. /\ sup[s].pc = "off" /\ begun' \in 0..MaxLoops /\ script' \in [Supervisors -> BOOLEAN]
        /\ sup' = [sup EXCEPT ![s] = [Off EXCEPT !.pc = "check"]]
        /\ UNCHANGED <<pidfile, STOP, driver, edits, beside>>
    BY <1>0, <1>1, LoopdAssumption DEF StartLoop, Stands, LoopdTypeOK
  <2>2. sup' \in [Supervisors -> Standings] /\ PidfileNames'
    BY <1>b, <2>1, SupMoves, OneMoves
  <2> QED BY <1>0, <2>1, <2>2 DEF LoopdInv, LoopdTypeOK, Standings
<1>2. ASSUME NEW s \in Supervisors, WritePidfile(s) PROVE LoopdInv' /\ beside' = beside
  <2>1. /\ sup[s].pc = "write" /\ pidfile' = s /\ Goto(s, "clear")
        /\ UNCHANGED <<STOP, driver, script, begun, edits, beside>>
    BY <1>2 DEF WritePidfile, Stands
  <2>2. PICK q \in Standings : q.pc = "clear" /\ sup' = [sup EXCEPT ![s] = q]
    BY <1>b, <2>1, SupMoves
  <2>3. sup' \in [Supervisors -> Standings] /\ PidfileNames'
    BY <1>b, <2>1, <2>2, OneMoves
  <2> QED BY <1>0, <2>1, <2>3 DEF LoopdInv, LoopdTypeOK, Standings
<1>3. ASSUME NEW s \in Supervisors, ClearStale(s) PROVE LoopdInv' /\ beside' = beside
  <2>1. /\ sup[s].pc = "clear" /\ STOP' = FALSE /\ Goto(s, "top")
        /\ UNCHANGED <<pidfile, driver, script, begun, edits, beside>>
    BY <1>3 DEF ClearStale, Stands
  <2>2. PICK q \in Standings : q.pc = "top" /\ sup' = [sup EXCEPT ![s] = q]
    BY <1>b, <2>1, SupMoves
  <2>3. sup' \in [Supervisors -> Standings] /\ PidfileNames'
    BY <1>b, <2>1, <2>2, OneMoves
  <2> QED BY <1>0, <2>1, <2>3 DEF LoopdInv, LoopdTypeOK, Standings
\* Leaving, from a place past the pidfile.
<1>4. ASSUME NEW s \in Supervisors, sup[s].pc \in Past, Leaves(s),
             UNCHANGED <<STOP, script, begun, edits, beside>>, driver' \in Supervisors \cup {Nobody, "other"}
      PROVE  LoopdInv' /\ beside' = beside
  <2>1. sup' = [sup EXCEPT ![s] = Off] /\ pidfile' = Nobody
    BY <1>4 DEF Leaves
  <2>2. sup' \in [Supervisors -> Standings] /\ PidfileNames'
    BY <1>b, <1>4, <2>1, SupMoves, OneMoves
  <2> QED BY <1>0, <1>4, <2>1, <2>2 DEF LoopdInv, LoopdTypeOK, Standings
\* Going on, from a place past the check.
<1>5. ASSUME NEW s \in Supervisors, sup[s].pc \in Past \ {"write"},
             NEW q \in Standings, q.pc \in {"check"} \cup (Past \ {"write"}), sup' = [sup EXCEPT ![s] = q],
             UNCHANGED <<pidfile, STOP, edits, beside>>, script' \in [Supervisors -> BOOLEAN],
             begun' \in 0..MaxLoops, driver' \in Supervisors \cup {Nobody, "other"}
      PROVE  LoopdInv' /\ beside' = beside
  <2>1. sup' \in [Supervisors -> Standings] /\ PidfileNames'
    BY <1>b, <1>5, OneMoves
  <2> QED BY <1>0, <1>5, <2>1 DEF LoopdInv, LoopdTypeOK, Standings
<1>c. /\ script \in [Supervisors -> BOOLEAN] /\ begun \in 0..MaxLoops
      /\ driver \in Supervisors \cup {Nobody, "other"}
  BY <1>0 DEF LoopdTypeOK
<1>6. ASSUME NEW s \in Supervisors, Top(s) PROVE LoopdInv' /\ beside' = beside
  <2>1. sup[s].pc = "top" /\ UNCHANGED <<STOP, driver, script, begun, edits, beside>>
    BY <1>6 DEF Top, Stands
  <2>2. CASE Leaves(s)
    BY <1>4, <1>b, <1>c, <2>1, <2>2
  <2>3. CASE Goto(s, "body") /\ UNCHANGED pidfile
    <3>1. PICK q \in Standings : q.pc = "body" /\ sup' = [sup EXCEPT ![s] = q]
      BY <1>b, <2>3, SupMoves
    <3> QED BY <1>5, <1>b, <1>c, <2>1, <2>3, <3>1
  <2> QED BY <1>6, <2>2, <2>3 DEF Top
<1>7. ASSUME NEW s \in Supervisors, Body(s) PROVE LoopdInv' /\ beside' = beside
  <2>1. sup[s].pc = "body" /\ UNCHANGED <<pidfile, STOP, driver, edits, beside>>
    BY <1>7 DEF Body, Stands
  <2>2. CASE Goto(s, "probe") /\ UNCHANGED <<script, begun>>
    <3>1. PICK q \in Standings : q.pc = "probe" /\ sup' = [sup EXCEPT ![s] = q]
      BY <1>b, <2>2, SupMoves
    <3> QED BY <1>5, <1>b, <1>c, <2>1, <2>2, <3>1
  <2>3. CASE Reexec(s)
    <3>1. PICK q \in Standings : q = [Off EXCEPT !.pc = "check"]
      BY SupMoves
    <3>2. /\ q.pc = "check" /\ sup' = [sup EXCEPT ![s] = q]
          /\ script' \in [Supervisors -> BOOLEAN] /\ begun' \in 0..MaxLoops
      BY <1>c, <2>3, <3>1, SupMoves, LoopdAssumption DEF Reexec
    <3> QED BY <1>5, <1>b, <1>c, <2>1, <3>2
  <2> QED BY <1>7, <2>2, <2>3 DEF Body
\* Going on with the cycle, or to sleep, or leaving after the third failure.
<1>8. ASSUME NEW s \in Supervisors, sup[s].pc \in Past \ {"write"},
             UNCHANGED <<STOP, script, begun, edits, beside>>, driver' \in Supervisors \cup {Nobody, "other"},
             \/ \E l \in Within : Goto(s, l) /\ UNCHANGED pidfile
             \/ Fails(s)
             \/ Succeeds(s) /\ UNCHANGED pidfile
             \/ UNCHANGED <<sup, pidfile>>
      PROVE  LoopdInv' /\ beside' = beside
  <2>0. Within \subseteq Past \ {"write"} /\ "sleep" \in Within
    BY DEF Within, Past
  <2>1. CASE \E l \in Within : Goto(s, l) /\ UNCHANGED pidfile
    <3>1. PICK l \in Within : Goto(s, l) /\ pidfile' = pidfile
      BY <2>1
    <3>2. PICK q \in Standings : q.pc = l /\ sup' = [sup EXCEPT ![s] = q]
      BY <2>0, <3>1, SupMoves
    <3> QED BY <1>5, <1>8, <1>c, <2>0, <3>1, <3>2
  <2>2. CASE Leaves(s)
    BY <1>4, <1>8, <1>c, <2>2
  <2>3. CASE pidfile' = pidfile /\ \E q \in Standings : q.pc = "sleep" /\ sup' = [sup EXCEPT ![s] = q]
    BY <1>5, <1>8, <1>c, <2>0, <2>3
  <2>4. CASE UNCHANGED <<sup, pidfile>>
    BY <1>0, <1>8, <2>4 DEF LoopdInv, LoopdTypeOK, PidfileNames
  <2> QED BY <1>8, <2>1, <2>2, <2>3, <2>4, SupMoves
<1>9. ASSUME NEW s \in Supervisors,
             Probe(s) \/ Build(s) \/ Skips(s) \/ LaunchCycle(s) \/ CycleEnds(s)
      PROVE  LoopdInv' /\ beside' = beside
  <2>1. /\ sup[s].pc \in Past \ {"write"} /\ UNCHANGED <<STOP, script, begun, edits, beside>>
        /\ driver' \in Supervisors \cup {Nobody, "other"}
    BY <1>9, <1>b, <1>c DEF Probe, Build, Skips, LaunchCycle, CycleEnds, Stands
  <2>2. \/ \E l \in Within : Goto(s, l) /\ UNCHANGED pidfile
        \/ Fails(s)
        \/ Succeeds(s) /\ UNCHANGED pidfile
        \/ UNCHANGED <<sup, pidfile>>
    BY <1>9 DEF Probe, Build, Skips, LaunchCycle, CycleEnds, Within
  <2> QED BY <1>8, <2>1, <2>2
<1>10. ASSUME NEW s \in Supervisors, Wakes(s) PROVE LoopdInv' /\ beside' = beside
  <2>1. sup[s].pc = "sleep" /\ Goto(s, "top") /\ UNCHANGED <<pidfile, STOP, driver, script, begun, edits, beside>>
    BY <1>10 DEF Wakes, Stands
  <2>2. PICK q \in Standings : q.pc = "top" /\ sup' = [sup EXCEPT ![s] = q]
    BY <1>b, <2>1, SupMoves
  <2> QED BY <1>5, <1>b, <1>c, <2>1, <2>2
<1>11. ASSUME NEW s \in Supervisors, SupKilled(s) PROVE LoopdInv' /\ beside' = beside
  <2>1. /\ sup' = [sup EXCEPT ![s] = Off] /\ driver' \in Supervisors \cup {Nobody, "other"}
        /\ UNCHANGED <<pidfile, STOP, script, begun, edits, beside>>
    BY <1>11, <1>c DEF SupKilled
  <2>2. sup' \in [Supervisors -> Standings] /\ PidfileNames'
    BY <1>b, <2>1, SupMoves, OneMoves
  <2> QED BY <1>0, <2>1, <2>2 DEF LoopdInv, LoopdTypeOK, Standings
<1>12. CASE StopCommand \/ Edit \/ OtherRun \/ UNCHANGED loopdVars
  <2>1. UNCHANGED <<sup, pidfile, beside>>
    BY <1>12 DEF StopCommand, Edit, OtherRun, loopdVars
  <2>2. LoopdTypeOK'
    <3>1. CASE StopCommand
      BY <1>0, <3>1 DEF StopCommand, LoopdTypeOK
    <3>2. CASE Edit
      <4>1. script' \in [Supervisors -> BOOLEAN] /\ edits' \in 0..MaxEdits
        BY <1>0, <3>2, LoopdAssumption DEF Edit, LoopdTypeOK
      <4> QED BY <1>0, <3>2, <4>1 DEF Edit, LoopdTypeOK
    <3>3. CASE OtherRun
      BY <1>0, <3>3 DEF OtherRun, LoopdTypeOK
    <3>4. CASE UNCHANGED loopdVars
      BY <1>0, <3>4 DEF loopdVars, LoopdTypeOK
    <3> QED BY <1>12, <3>1, <3>2, <3>3, <3>4
  <2> QED BY <1>0, <2>1, <2>2 DEF LoopdInv, PidfileNames
<1> QED
  BY <1>1, <1>2, <1>3, <1>6, <1>7, <1>9, <1>10, <1>11, <1>12, ChecksPidfile
  DEF LoopdNext, SupStep

LEMMA LoopdInductive == Spec => []LoopdInv
<1>1. Init => LoopdInv
  BY LoopdInitially DEF Init
<1>2. [Next]_vars => [LoopdNext]_loopdVars
  BY DEF Next, vars
<1>3. LoopdInv /\ [Next]_vars => LoopdInv'
  BY <1>2, LoopdStep
<1> QED BY <1>1, <1>3, PTL DEF Spec

-----------------------------------------------------------------------------

\* Type correctness of Control, whoever is killed or restarted.
THEOREM ControlTypeCorrect == Spec => []ControlTypeOK
<1>1. IInv => ControlTypeOK
  BY DEF IInv
<1> QED
  BY <1>1, Inductive, PTL

\* What chug_abort and chug_cancel said of a run is so, and stays so until the
\* next run begins.
THEOREM AbortIsTruthful == Spec => []AbortTruthful
<1>1. IInv => AbortTruthful
  <2> SUFFICES ASSUME IInv PROVE AbortTruthful
    OBVIOUS
  <2>1. answer.said = "aborted" /\ owner = answer.of /\ ~torn => Summary.aborted
    BY DEF IInv, HalvesAreTorn, AbortIsInLog, Summary, Verdicts, ControlTypeOK
  <2> QED
    BY <2>1 DEF IInv, ClaimsAreOfEnded, Claims, Ended, AbortTruthful
<1> QED
  BY <1>1, Inductive, PTL

\* Whatever of JudgeDaemon holds by its steps alone holds here.
LEMMA JudgeInductive == Spec => []JudgeInv
<1>1. Init => JudgeInv
  BY JudgeInitially DEF Init
<1>2. [Next]_vars => [JudgeNext]_judgeVars
  BY DEF Next, vars
<1>3. JudgeInv /\ [Next]_vars => JudgeInv'
  BY <1>2, JudgeStep
<1> QED
  BY <1>1, <1>3, PTL DEF Spec

\* Type correctness of the three parts.
THEOREM TypeCorrect == Spec => []TypeOK
<1>1. IInv /\ LoopdInv /\ JudgeInv => TypeOK
  BY DEF IInv, LoopdInv, JudgeInv, TypeOK
<1> QED
  BY <1>1, Inductive, LoopdInductive, JudgeInductive, PTL

\* Two supervisors come to run beside one another in one way: the second looks
\* at the pidfile while the first has passed it and not yet written its own pid
\* (loopd.sh checks, and writes later).  Neither exec, which forgets the trap,
\* nor a killed supervisor, nor the trap that removes whatever pidfile there is,
\* opens another window.
THEOREM OneWindow ==
  Spec => [][~beside /\ beside' => \E o \in Supervisors : Stands(o, "write")]_loopdVars
<1>1. [Next]_vars => [LoopdNext]_loopdVars
  BY DEF Next, vars
<1>2. LoopdInv /\ [Next]_vars =>
        [~beside /\ beside' => \E o \in Supervisors : Stands(o, "write")]_loopdVars
  BY <1>1, LoopdStep
<1> QED
  BY <1>2, LoopdInductive, PTL DEF Spec
=============================================================================
