------------------------------ MODULE DriveLoop -----------------------------
(***************************************************************************)
(* src/src/driver.rs, drive_loop: one invocation of the iteration loop     *)
(* that `chug run`, a chat turn and a plan session share.  The loop asks   *)
(* the model, runs the tool calls of its answer through the gates, and     *)
(* decides whether to go on.                                               *)
(*                                                                         *)
(* Kept: the order of the checks at the top of an iteration, the one-shot  *)
(* latches, the gate chain in front of a tool, goal verification, the      *)
(* stuck tripwire, free LIVE_CTX edit turns and every way out.  The        *)
(* messages themselves are the subject of module Session.  The model, the  *)
(* tools, the clock, the operator and the disk are nondeterministic.       *)
(***************************************************************************)
EXTENDS Integers, Sequences

CONSTANTS Modes,         \* the kinds of session: "run", "chat", "plan"
          Commands,      \* bash commands
          Denied,        \* the calls a rule of permissions.json denies
          HooksOn,       \* hooks.json has PreToolUse hooks
          Gated,         \* the run was started with the risk gate
          NoCheck,       \* no `check:' line, no /check
          Checks,        \* the check commands the spec or /check may name
          IterLimits,    \* the values max_iters may take
          MinuteLimits,  \* the values max_minutes may take
          MaxTokens,     \* max_tokens; 0 is unlimited
          Usages,        \* what one response may add to the token count
          WarnIters, WarnMinutes, WarnTokens,   \* budget-low thresholds
          MaxFree,       \* MAX_CONSECUTIVE_FREE_CTX_EDITS
          Images,        \* image blocks occur: read_file of an image
          Errors,        \* error texts, as error_marker tells them apart
          MaxCalls,      \* bound: tool calls in one response
          MaxUpdates,    \* bound: slash commands of the user
          MaxHistory     \* bound: where the history counters stop counting

OtherCalls == {"goal_complete", "submit_plan", "read", "ctx_edit", "other"}
Calls == Commands \cup OtherCalls

ASSUME ParametersAssumption ==
    /\ Modes \subseteq {"run", "chat", "plan"}
    /\ Denied \subseteq Calls
    /\ {HooksOn, Gated, Images} \subseteq BOOLEAN
    /\ NoCheck \notin Commands
    /\ Checks \subseteq Commands \cup {NoCheck} /\ Checks # {}
    /\ IterLimits \subseteq Nat /\ IterLimits # {}
    /\ MinuteLimits \subseteq Nat /\ MinuteLimits # {}
    /\ Usages \subseteq Nat
    /\ {MaxTokens, WarnIters, WarnMinutes, WarnTokens, MaxFree,
        MaxCalls, MaxUpdates, MaxHistory} \subseteq Nat
    /\ 0 \notin {WarnIters, MaxHistory}
    /\ "ok" \notin Errors

VARIABLES
    mode,       \* which of the three this invocation is
    pc,         \* where the loop is
    outcome,    \* how the invocation ended
    iter,       \* iteration
    maxIters, maxMinutes,   \* knobs
    clock,      \* minutes since the start
    used,       \* usage_in + usage_out
    abort,      \* controls.abort
    gate,       \* the risk gate: "none", "on", or "off" for good
    updates,    \* slash commands the user has yet to type
    warned,     \* the budget-low latches
    check,      \* the check: line of spec_text (chat: the /check knob)
    image,      \* some message in memory carries an image block
    mirror,     \* LIVE_CTX.md as mirrored: "none", "plain", "image"
    degraded,   \* images_degraded
    turn,       \* what the tool loop of this iteration has gathered
    recent,     \* the equal errors at the end of the last STUCK_WINDOW results
    free,       \* consecutive_free_edits
    calls,      \* history: iterations that asked the model
    late,       \* history: those begun after a reason to stop had come up
    notices,    \* history: budget-low messages injected
    held        \* the call the loop is in has no time limit, and does not return

vars == <<mode, pc, outcome, iter, maxIters, maxMinutes, clock, used, abort, gate,
          updates, warned, check, image, mirror, degraded,
          turn, recent, free, calls, late, notices, held>>

env    == <<mode, clock, abort, updates, held>>
knobs  == <<maxIters, maxMinutes>>
budget == <<iter, used, warned, free>>
gates  == <<gate, check>>
ctx    == <<image, mirror, degraded>>
ghosts == <<calls, late, notices>>

-----------------------------------------------------------------------------
StuckWindow == 3
Kinds == {"iters", "time", "tokens"}
Outcomes == {"iterations", "minutes", "tokens", "abort", "stuck", "goal", "plan", "completed", "error"}

NoTurn == [todo |-> 0, count |-> 0, editOnly |-> TRUE, goal |-> FALSE,
           plan |-> FALSE, claimed |-> FALSE, edited |-> FALSE,
           image |-> FALSE, verdict |-> "none"]

TypeOK ==
    /\ mode \in Modes
    /\ pc \in {"top", "drain", "slash", "notice", "mirror", "call", "tools",
               "turn", "after", "done"}
    /\ outcome \in Outcomes \cup {"none"}
    /\ maxIters \in IterLimits /\ maxMinutes \in MinuteLimits
    /\ iter \in Nat /\ used \in Nat /\ free \in Nat /\ clock \in Nat
    /\ abort \in BOOLEAN
    /\ gate \in {"none", "on", "off"}
    /\ updates \in 0..MaxUpdates
    /\ warned \subseteq Kinds
    /\ check \in Checks \cup {NoCheck}
    /\ image \in BOOLEAN /\ degraded \in BOOLEAN
    /\ mirror \in {"none", "plain", "image"}
    /\ turn \in [todo : 0..MaxCalls, count : 0..MaxCalls, editOnly : BOOLEAN,
                 goal : BOOLEAN, plan : BOOLEAN, claimed : BOOLEAN,
                 edited : BOOLEAN, image : BOOLEAN,
                 verdict : {"none", "nocheck", "accepted", "failed", "blocked"}]
    /\ recent \in Seq(Errors) /\ Len(recent) <= StuckWindow
    /\ calls \in Nat /\ late \in Nat /\ notices \in Nat
    /\ held \in BOOLEAN

Init ==
    /\ mode \in Modes /\ pc = "top" /\ outcome = "none"
    /\ iter = 0 /\ used = 0 /\ free = 0 /\ clock = 0
    /\ maxIters \in IterLimits /\ maxMinutes \in MinuteLimits
    /\ abort = FALSE
    /\ gate = IF Gated /\ mode # "plan" THEN "on" ELSE "none"
    /\ updates = MaxUpdates
    /\ warned = {}
    /\ check \in (IF mode = "plan" THEN {NoCheck} ELSE Checks)
    /\ image \in (IF Images /\ mode # "plan" THEN BOOLEAN ELSE {FALSE})
    /\ mirror = "none" /\ degraded = FALSE
    /\ turn = NoTurn /\ recent = <<>>
    /\ calls = 0 /\ late = 0 /\ notices = 0 /\ held = FALSE

Finish(o) == pc' = "done" /\ outcome' = o
Goto(l)   == pc' = l /\ UNCHANGED outcome

TokensSpent == MaxTokens > 0 /\ used >= MaxTokens

\* A reason to stop that the top of the loop would act upon.
StopDue == abort \/ clock >= maxMinutes \/ TokensSpent

Count(n) == IF n < MaxHistory THEN n + 1 ELSE n

-----------------------------------------------------------------------------
(* The world around the loop.                                              *)

Tick ==
    /\ pc # "done" /\ \E m \in MinuteLimits : clock < m
    /\ clock' = clock + 1
    /\ UNCHANGED <<mode, pc, outcome, abort, updates, held, knobs, budget,
                   gates, ctx, turn, recent, ghosts>>

\* `q' in the TUI, an interrupt in chat; plan sessions are detached.
OperatorAborts ==
    /\ pc # "done" /\ mode # "plan" /\ ~abort
    /\ abort' = TRUE
    /\ UNCHANGED <<mode, pc, outcome, clock, updates, held, knobs, budget,
                   gates, ctx, turn, recent, ghosts>>

\* A tool call, or the goal check, waits for somebody who has no time limit:
\* an MCP server that does not read (mcp.rs:1437), a process that left the
\* group of a hook and has its stdin (hooks.rs:546), a judge daemon that does
\* not accept (daemon.rs:154).  Plan sessions have none of the three.
CallHangs ==
    /\ (pc = "tools" /\ turn.todo > 0) \/ (pc = "turn" /\ turn.goal)
    /\ mode # "plan" /\ ~held
    /\ held' = TRUE
    /\ UNCHANGED <<mode, pc, outcome, clock, abort, updates, knobs, budget,
                   gates, ctx, turn, recent, ghosts>>

-----------------------------------------------------------------------------
(* The top of an iteration.                                                *)

\* Slip: the abort flag is asked only where there is no budget left to ask.
Exceeded_NoAbort == IF iter >= maxIters THEN "iterations"
                    ELSE IF clock >= maxMinutes THEN "minutes"
                    ELSE IF TokensSpent THEN "tokens" ELSE "none"

\* Asked in this order; the first that applies ends the invocation.
Exceeded == IF iter >= maxIters THEN "iterations"
            ELSE IF clock >= maxMinutes THEN "minutes"
            ELSE IF TokensSpent THEN "tokens"
            ELSE IF abort THEN "abort" ELSE "none"

Top ==
    /\ pc = "top"
    /\ IF Exceeded = "none" THEN Goto("drain") ELSE Finish(Exceeded)
    /\ UNCHANGED <<env, knobs, budget, gates, ctx, turn, recent, ghosts>>

\* Steering notes, if any have come in (a plan session is detached).  Only
\* `allow destructive' means anything to the loop.
Drain ==
    /\ pc = "drain"
    /\ Goto("slash")
    /\ \/ UNCHANGED gate
       \/ mode # "plan" /\ gate = "on" /\ gate' = "off"
    /\ UNCHANGED <<env, knobs, budget, check, ctx, turn, recent, ghosts>>

\* A /budget or a /check that has come in (chat only).
ApplySlash ==
    /\ pc = "slash" /\ mode = "chat" /\ updates > 0
    /\ updates' = updates - 1
    /\ \/ /\ maxIters' \in IterLimits
          /\ maxMinutes' \in MinuteLimits
          /\ UNCHANGED check
       \/ check' \in Checks /\ UNCHANGED knobs
    /\ UNCHANGED <<mode, pc, outcome, clock, abort, held, budget, gate, ctx,
                   turn, recent, ghosts>>

NoSlash ==
    /\ pc = "slash"
    /\ Goto("notice")
    /\ UNCHANGED <<env, knobs, budget, gates, ctx, turn, recent, ghosts>>

\* saturating_sub
Left(limit, spent) == IF spent >= limit THEN 0 ELSE limit - spent

\* The kinds of budget that are low now.
Low == {k \in Kinds :
          CASE k = "iters"  -> Left(maxIters, iter) <= WarnIters
            [] k = "time"   -> Left(maxMinutes, clock) <= WarnMinutes
            [] k = "tokens" -> /\ MaxTokens > 0
                               /\ Left(MaxTokens, used) <= WarnTokens}

\* Slip: latched before the comparison, the message is never sent.
budget_low_notice_Late ==
    /\ pc = "notice"
    /\ Goto("mirror")
    /\ warned' = IF Left(maxIters, iter) = 0 THEN warned \cup Low ELSE warned
    /\ UNCHANGED <<env, knobs, iter, used, free, gates, ctx, turn, recent,
                   calls, late, notices>>

\* One message for whatever is newly low; every low kind is latched.
budget_low_notice ==
    /\ pc = "notice"
    /\ Goto("mirror")
    /\ notices' = IF Low \subseteq warned THEN notices ELSE Count(notices)
    /\ warned' = warned \cup Low
    /\ UNCHANGED <<env, knobs, iter, used, free, gates, ctx, turn, recent,
                   calls, late>>

\* Mirror the messages to LIVE_CTX.md (the write may fail; plan never does),
\* and read the spec again: the model with a tool or the user with an editor
\* may have changed it.  The last good copy stays if it cannot be read.
MirrorAndReadSpec ==
    /\ pc = "mirror"
    /\ Goto("call")
    /\ \/ mirror' = "none"
       \/ mode # "plan" /\ mirror' = IF image THEN "image" ELSE "plain"
    /\ check' \in (IF mode = "run" THEN Checks ELSE {check})
    /\ UNCHANGED <<env, knobs, budget, gate, image, degraded, turn,
                   recent, ghosts>>

-----------------------------------------------------------------------------
(* The request.  A response has some number of tool calls; which, the tool *)
(* loop finds out one by one.                                              *)

\* The endpoint refuses a request with images at most the first time: the
\* retry has none.  images_degraded is latched.
Call ==
    /\ pc = "call"
    /\ calls' = Count(calls)
    /\ late' = IF StopDue THEN Count(late) ELSE late
    /\ \/ UNCHANGED <<image, degraded>>
       \/ image /\ ~degraded /\ image' = FALSE /\ degraded' = TRUE
    /\ \E n \in 0..MaxCalls : turn' = [NoTurn EXCEPT !.todo = n, !.count = n]
    /\ \E u \in Usages : used' = used + u
    /\ Goto("tools")
    /\ UNCHANGED <<env, knobs, iter, warned, free, gates, mirror, recent, notices>>

\* complete() failed for good (the retry included), or a write to the
\* transcript did: `?' out of the loop, with no event.
Fails ==
    /\ pc \in {"drain", "notice", "mirror", "call", "turn", "after"}
    /\ Finish("error")
    /\ UNCHANGED <<env, knobs, budget, gates, ctx, turn, recent, ghosts>>

-----------------------------------------------------------------------------
(* The tool loop.                                                          *)

\* The window is kept as far as the tripwire looks: any other result than one
\* more of the same error starts it anew.
Push(r) == recent' = IF r = "ok" THEN <<>>
                     ELSE IF recent = <<>> \/ recent[1] # r THEN <<r>>
                     ELSE IF Len(recent) = StuckWindow THEN recent
                     ELSE Append(recent, r)

\* classify_call: what a free turn may consist of.
EditClass(c) == c \in {"read", "ctx_edit"}

\* What a call adds to the turn; `claims' is whether it may end the session.
Gather(c, claims) ==
    [turn EXCEPT
       !.todo = @ - 1,
       !.editOnly = @ /\ EditClass(c),
       !.goal = @ \/ (c = "goal_complete" /\ mode # "plan" /\ claims),
       !.plan = @ \/ (c = "submit_plan" /\ mode = "plan" /\ claims)]

\* Slip (before T140): a claim counts even if the call was blocked.
Taken_Blocked(c, r) == Gather(c, TRUE)

Taken(c, r) == Gather(c, r = "ok")

\* A call that no tool runs for; the model gets an error to route around.
NotRun(c) ==
    \E r \in Errors : turn' = Taken(c, r) /\ Push(r)

\* The gates, in the order of the dispatch chain.
PermissionDenies(c) == c \in Denied
HookVetoes(c) == HooksOn /\ mode # "plan"
PlanRejects(c) == mode = "plan" /\ c \notin {"read", "submit_plan"}

\* The judge may block whatever command it is asked about, and let any pass:
\* it says so, it is late, or it is not there (the gate fails open).
RiskGateBlocks(c) == c \in Commands /\ gate = "on"

\* Slip: the latch covers the request only.
Wrapped_Always(shows) == shows

Wrapped(shows) == shows /\ ~degraded

dispatch(c) ==
    \E r \in Errors \cup {"ok"}, shows \in BOOLEAN, edits \in BOOLEAN :
         /\ shows => Images /\ c = "read" /\ r = "ok"
         /\ edits => c \in Commands \cup {"ctx_edit"}
         /\ turn' = [Taken(c, r) EXCEPT
                       !.claimed = @ \/ (c \in {"goal_complete", "submit_plan"} /\ r = "ok"),
                       !.edited = @ \/ edits,
                       !.image = @ \/ Wrapped(shows)]
         /\ Push(r)

ToolCall ==
    /\ pc = "tools" /\ turn.todo > 0
    /\ \E c \in Calls :
         \/ PermissionDenies(c) /\ NotRun(c)
         \/ ~PermissionDenies(c) /\ HookVetoes(c) /\ NotRun(c)
         \/ ~PermissionDenies(c) /\ PlanRejects(c) /\ NotRun(c)
         \/ ~PermissionDenies(c) /\ RiskGateBlocks(c) /\ NotRun(c)
         \/ ~PermissionDenies(c) /\ ~PlanRejects(c) /\ dispatch(c)
    /\ UNCHANGED <<pc, outcome, env, knobs, budget, gate, check, ctx, ghosts>>

ToolsDone ==
    /\ pc = "tools" /\ turn.todo = 0
    /\ Goto("turn")
    /\ UNCHANGED <<env, knobs, budget, gates, ctx, turn, recent, ghosts>>

-----------------------------------------------------------------------------
(* The end of the turn.                                                    *)

\* No tool call: a chat turn is over; run and plan are kicked on.
NaturalStop ==
    /\ pc = "turn" /\ turn.count = 0
    /\ IF mode = "chat" THEN Finish("completed") ELSE Goto("after")
    /\ UNCHANGED <<env, knobs, budget, gates, ctx, turn, recent, ghosts>>

PlanSubmitted ==
    /\ pc = "turn" /\ turn.count > 0 /\ turn.plan
    /\ Finish("plan")
    /\ UNCHANGED <<env, knobs, budget, gates, ctx, turn, recent, ghosts>>

\* verify: the verdict on the check command, which passes the gates of bash
\* before it runs (T139).
NoCheckConfigured == check = NoCheck
CheckBlocked ==
    /\ check # NoCheck
    /\ PermissionDenies(check) \/ HookVetoes(check) \/ RiskGateBlocks(check)
CheckRuns == check # NoCheck /\ ~PermissionDenies(check)

Rejects(verdict) == verdict \in {"failed", "blocked"}

verify ==
    /\ pc = "turn" /\ turn.count > 0 /\ ~turn.plan /\ turn.goal
    /\ \E verdict \in {"nocheck", "accepted", "failed", "blocked"} :
         /\ CASE verdict = "nocheck" -> NoCheckConfigured
              [] verdict = "blocked" -> CheckBlocked
              [] OTHER               -> CheckRuns
         /\ turn' = [turn EXCEPT !.verdict = verdict]
         /\ IF Rejects(verdict) THEN Goto("after") ELSE Finish("goal")
    /\ UNCHANGED <<env, knobs, budget, gate, check, ctx, recent, ghosts>>

JustWork ==
    /\ pc = "turn" /\ turn.count > 0 /\ ~turn.plan /\ ~turn.goal
    /\ Goto("after")
    /\ UNCHANGED <<env, knobs, budget, gates, ctx, turn, recent, ghosts>>

\* The last three results are errors with the same beginning.
is_stuck(results) == Len(results) = StuckWindow

Stuck ==
    /\ pc = "after" /\ is_stuck(recent)
    /\ Finish("stuck")
    /\ image' = (image \/ turn.image)
    /\ UNCHANGED <<env, knobs, budget, gates, mirror, degraded, turn, recent, ghosts>>

\* Slip: the turn after MaxFree free ones re-arms the privilege, uncounted.
Account_Rearms(isFree) ==
    IF isFree THEN /\ free' = IF free < MaxFree THEN free + 1 ELSE 0
                   /\ UNCHANGED iter
              ELSE free' = 0 /\ iter' = iter + 1

\* T192: the first MaxFree consecutive edit-only turns cost no iteration.
Account(isFree) ==
    IF isFree /\ free < MaxFree
    THEN free' = free + 1 /\ UNCHANGED iter
    ELSE /\ iter' = iter + 1
         /\ free' = IF isFree THEN free + 1 ELSE 0

\* The LIVE_CTX check, the trim (which may collapse the message with the
\* image) and the accounting.  An accepted edit replaces the messages that
\* were mirrored before the call by what the edited file holds of them.
EndTurn ==
    /\ pc = "after" /\ ~is_stuck(recent)
    /\ Goto("top")
    /\ \E accepted \in BOOLEAN, kept \in BOOLEAN, collapsed \in BOOLEAN :
         /\ accepted => turn.edited /\ mirror # "none"
         /\ LET old == IF accepted THEN kept /\ mirror = "image" ELSE image
            IN  image' = (~collapsed /\ (old \/ turn.image))
         /\ Account(turn.count > 0 /\ turn.editOnly /\ accepted)
    /\ turn' = NoTurn /\ mirror' = "none"
    /\ UNCHANGED <<env, knobs, used, warned, gate, check, degraded, recent, ghosts>>

-----------------------------------------------------------------------------
LoopStep ==
    /\ ~held
    /\ \/ Top \/ Drain \/ ApplySlash \/ NoSlash \/ budget_low_notice
       \/ MirrorAndReadSpec \/ Call \/ Fails \/ ToolCall \/ ToolsDone
       \/ NaturalStop \/ PlanSubmitted \/ verify \/ JustWork \/ Stuck \/ EndTurn

Next == Tick \/ OperatorAborts \/ CallHangs \/ LoopStep

Spec == Init /\ [][Next]_vars

\* The loop is one thread that only a call it makes can hold up.  A request, a
\* command, a hook, a question to the judge have time limits of their own;
\* what has none may hang (CallHangs).  Nothing obliges the operator.
FairSpec == Spec /\ WF_vars(LoopStep)

\* The process exit code of run and plan.
ExitCode == CASE outcome \in {"goal", "plan"} -> 0
              [] outcome = "stuck"            -> 2
              [] OTHER                        -> 1

-----------------------------------------------------------------------------
(* Properties.                                                             *)

\* Exit code 0 (chat: a goal accepted) is earned: in that very turn the
\* claiming tool ran, unblocked, and where there is a check it ran and passed;
\* a check that policy blocked verifies nothing (T139, T140), wherever the
\* spec that names it was rewritten meanwhile.
SuccessIsEarned ==
    outcome \in {"goal", "plan"} =>
        /\ turn.claimed
        /\ outcome = "goal" =>
              IF check = NoCheck THEN turn.verdict = "nocheck"
              ELSE turn.verdict = "accepted" /\ check \notin Denied

\* However many LIVE_CTX edits the model makes, the requests of an invocation
\* stay within a multiple of the iteration budget: MaxFree free turns before
\* each counted one (T192).
CallsBounded == calls <= iter + MaxFree * (iter + 1) + 1

\* Once the operator has aborted, or the time or the tokens are spent, at most
\* one more iteration asks the model: the one that was past the top already.
StopsInTime == late <= 1

\* The budget-low messages come when they should and no more often.  The
\* latches cap them at one per kind, even if /budget moves the limits back and
\* forth, and an invocation that dies of its iteration budget after asking the
\* model at all was told so beforehand (T13, T17).
WarnedOncePerKind ==
    /\ notices <= 3
    /\ outcome = "iterations" /\ calls > 0 => notices > 0 /\ "iters" \in warned

\* After the endpoint has refused images the messages get none again, neither
\* from a tool result nor from an edit: "a non-vision endpoint degrades instead
\* of poisoning every subsequent request" (T91).  The exception is an edit
\* accepted in the very iteration of the refusal, whose LIVE_CTX.md was
\* mirrored before it.
ImagesStayOut ==
    [][degraded /\ ~image /\ mirror # "image" => ~image']_vars

\* Every invocation ends, unless it hangs in a call that has no time limit:
\* each budget is finite, free turns are limited, and no way round the loop
\* misses the top.
Terminates == <>(pc = "done" \/ held)
=============================================================================
