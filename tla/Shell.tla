-------------------------------- MODULE Shell --------------------------------
(***************************************************************************)
(* A command of the model (run_shell, src/src/tools.rs) or a hook of the   *)
(* operator (run_hook, src/src/hooks.rs): `sh -c' in a process group of    *)
(* its own, with pipes, a reader thread and a deadline.  What it starts    *)
(* may outlive it, in its group or, after a setsid, in another, and holds  *)
(* the pipes as long as it lives.                                          *)
(*                                                                         *)
(* One command, one of its two output pipes.  Chunks of output are only    *)
(* counted: pipe and channel keep their order.                             *)
(***************************************************************************)
EXTENDS Naturals

CONSTANTS Chunks,   \* bound: chunks of output
          Room      \* what the pipe has room for

ASSUME ShellAssumption == Chunks \in Nat /\ Room \in Nat \ {0}

VARIABLES kind,    \* "shell" or "hook"
          tree,    \* the processes of the command
          out,     \* chunks written, read, put in the channel, and received
          drainer,  \* the reader thread
          feeder,  \* the thread that writes a hook's stdin
          waiter   \* run_shell or run_hook, and what its result says

shellVars == <<kind, tree, out, drainer, feeder, waiter>>

Group == {"leader", "kid"}
Tree  == Group \cup {"stray"}
Up(p) == tree[p] = "up"
Held  == \E p \in Tree : Up(p)     \* somebody has the pipes open

ShellTypeOK ==
    /\ kind \in {"shell", "hook"}
    /\ tree \in [Tree -> {"none", "up", "gone"}]
    /\ out \in [written : 0..Chunks, read : 0..Chunks, sent : 0..Chunks, got : 0..Chunks]
    /\ drainer \in {"off", "reads", "eof"} /\ feeder \in {"writes", "done"}
    /\ waiter \in [pc : {"idle", "poll", "kill", "join", "receive", "done"}, timedOut : BOOLEAN, noted : BOOLEAN]

ShellInit ==
    /\ kind = "shell"
    /\ tree = [p \in Tree |-> "none"]
    /\ out = [written |-> 0, read |-> 0, sent |-> 0, got |-> 0]
    /\ drainer = "off"
    /\ feeder = "done" /\ waiter = [pc |-> "idle", timedOut |-> FALSE, noted |-> FALSE]

-----------------------------------------------------------------------------
(* The command.                                                            *)

\* A hook's payload may be more than its stdin has room for.
Spawn ==
    /\ waiter.pc = "idle" /\ waiter' = [waiter EXCEPT !.pc = "poll"]
    /\ kind' \in {"shell", "hook"} /\ tree' = [tree EXCEPT !["leader"] = "up"]
    /\ feeder' = "done" \/ (kind' = "hook" /\ feeder' = "writes")
    /\ drainer' = "reads" /\ UNCHANGED out

\* A child stays in the group of its parent, or leaves it.
Forks(p) ==
    /\ tree[p] = "none" /\ \E q \in Group : Up(q)
    /\ tree' = [tree EXCEPT ![p] = "up"]
    /\ UNCHANGED <<kind, out, drainer, feeder, waiter>>

Leaves(p) ==
    /\ Up(p) /\ tree' = [tree EXCEPT ![p] = "gone"]
    /\ UNCHANGED <<kind, out, drainer, feeder, waiter>>

Prints(p) ==
    /\ Up(p) /\ out.written < Chunks /\ out.written - out.read < Room
    /\ out' = [out EXCEPT !.written = @ + 1]
    /\ UNCHANGED <<kind, tree, drainer, feeder, waiter>>

\* Somebody reads the stdin of the hook.
ReadsPayload ==
    /\ feeder = "writes" /\ Held /\ feeder' = "done"
    /\ UNCHANGED <<kind, tree, out, drainer, waiter>>

-----------------------------------------------------------------------------
(* The threads.                                                            *)

\* drain_pipe hands each chunk over; read_to_end keeps them.
ReadsChunk ==
    /\ drainer = "reads" /\ out.read < out.written
    /\ out' = [out EXCEPT !.read = @ + 1, !.sent = IF kind = "shell" THEN @ + 1 ELSE @]
    /\ UNCHANGED <<kind, tree, drainer, feeder, waiter>>

PipeEnds ==
    /\ drainer = "reads" /\ out.read = out.written /\ ~Held
    /\ drainer' = "eof" /\ out' = [out EXCEPT !.sent = out.read]
    /\ UNCHANGED <<kind, tree, feeder, waiter>>

\* EPIPE: nobody is there to read any more.
FeedFails ==
    /\ feeder = "writes" /\ ~Held /\ feeder' = "done"
    /\ UNCHANGED <<kind, tree, out, drainer, waiter>>

-----------------------------------------------------------------------------
(* run_shell and run_hook.                                                 *)

On(pc) == waiter' = [waiter EXCEPT !.pc = pc]
AfterWait == IF kind = "hook" THEN "join" ELSE "receive"

\* try_wait, until the leader has ended or the time is up.
Ended ==
    /\ waiter.pc = "poll" /\ ~Up("leader") /\ On(AfterWait)
    /\ UNCHANGED <<kind, tree, out, drainer, feeder>>

TimeIsUp ==
    /\ waiter.pc = "poll" /\ Up("leader") /\ On("kill")
    /\ UNCHANGED <<kind, tree, out, drainer, feeder>>

\* kill_process_group, and wait: the leader is not reaped before.
KillsGroup ==
    /\ waiter.pc = "kill"
    /\ tree' = [p \in Tree |-> IF p \in Group /\ Up(p) THEN "gone" ELSE tree[p]]
    /\ waiter' = [waiter EXCEPT !.pc = AfterWait, !.timedOut = TRUE]
    /\ UNCHANGED <<kind, out, drainer, feeder>>

JoinsFeeder ==
    /\ waiter.pc = "join" /\ feeder = "done" /\ On("receive")
    /\ UNCHANGED <<kind, tree, out, drainer, feeder>>

Gets ==
    /\ waiter.pc = "receive" /\ out.got < out.sent
    /\ out' = [out EXCEPT !.got = IF kind = "hook" THEN out.sent ELSE @ + 1]
    /\ UNCHANGED <<kind, tree, drainer, feeder, waiter>>

AllRead == waiter.pc = "receive" /\ drainer = "eof" /\ out.got = out.sent

\* The channel is closed and empty.
Drains ==
    /\ AllRead /\ On("done") /\ UNCHANGED <<kind, tree, out, drainer, feeder>>

\* Slip: the result is all there is once the leader has gone.
GraceIsOver_Unnoted ==
    /\ waiter.pc = "receive" /\ On("done")
    /\ UNCHANGED <<kind, tree, out, drainer, feeder>>

\* Slip: the reader is waited for.
GraceIsOver_Joins ==
    /\ AllRead /\ waiter' = [waiter EXCEPT !.pc = "done", !.noted = TRUE]
    /\ UNCHANGED <<kind, tree, out, drainer, feeder>>

\* What has come by the end of the grace is the result, with a note; a hook's
\* has none.
GraceIsOver ==
    /\ waiter.pc = "receive"
    /\ waiter' = [waiter EXCEPT !.pc = "done", !.noted = (kind = "shell")]
    /\ UNCHANGED <<kind, tree, out, drainer, feeder>>

-----------------------------------------------------------------------------
WaiterStep == Ended \/ TimeIsUp \/ KillsGroup \/ JoinsFeeder \/ Drains \/ GraceIsOver
ShellNext ==
    \/ Spawn \/ Forks("kid") \/ Forks("stray") \/ \E p \in Tree : Leaves(p) \/ Prints(p)
    \/ ReadsPayload \/ ReadsChunk \/ PipeEnds \/ FeedFails \/ WaiterStep \/ Gets

\* The waiter has deadlines for everything but the join; a write to a pipe that
\* nobody has open fails.  Nothing is asked of the command.
ShellFair == WF_shellVars(WaiterStep) /\ WF_shellVars(FeedFails)

ShellSpec == ShellInit /\ [][ShellNext]_shellVars /\ ShellFair

-----------------------------------------------------------------------------
(* Properties.                                                             *)

\* The result of a command is honest, whatever its processes did meanwhile: if
\* it does not say that output is missing, it is all they ever wrote; and where
\* the time was up nothing of the group goes on, to write or to hold pipes.
ResultHonest ==
    waiter.pc = "done" =>
        /\ kind = "shell" /\ ~waiter.noted => out.got = out.written /\ ~Held
        /\ waiter.timedOut => \A p \in Group : ~Up(p)

\* Command and hook come back, whatever hangs and whoever keeps the pipes: but
\* for a hook that ends without having read its stdin and leaves behind a
\* process that has it open.
CommandReturns ==
    (waiter.pc # "idle") ~>
        (waiter.pc = "done" \/ (waiter.pc = "join" /\ feeder = "writes" /\ Held))
=============================================================================
