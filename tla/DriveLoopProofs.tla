-------------------------- MODULE DriveLoopProofs ---------------------------
(***************************************************************************)
(* Proofs about DriveLoop, for every mode, any commands, rules, limits and *)
(* thresholds, and any number of tool calls and slash commands.            *)
(***************************************************************************)
EXTENDS DriveLoop, TLAPS

\* The parts of TypeOK that a step disturbs together.
Turns == [todo : 0..MaxCalls, count : 0..MaxCalls, editOnly : BOOLEAN,
          goal : BOOLEAN, plan : BOOLEAN, claimed : BOOLEAN,
          edited : BOOLEAN, image : BOOLEAN,
          verdict : {"none", "nocheck", "accepted", "failed", "blocked"}]

LEMMA Switches == HooksOn \in BOOLEAN /\ Gated \in BOOLEAN /\ Images \in BOOLEAN
  BY ParametersAssumption

LEMMA Numbers ==
  /\ {MaxTokens, MaxFree, MaxCalls, MaxUpdates, MaxHistory,
      WarnIters, WarnMinutes, WarnTokens} \subseteq Nat
  /\ Usages \subseteq Nat /\ IterLimits \subseteq Nat /\ MinuteLimits \subseteq Nat
  BY ParametersAssumption

LEMMA InitTypeOK == Init => TypeOK
<1> SUFFICES ASSUME Init PROVE TypeOK
  OBVIOUS
<1>1. /\ gate \in {"none", "on", "off"} /\ image \in BOOLEAN
      /\ check \in Checks \cup {NoCheck}
  BY Switches DEF Init
<1>2. turn \in Turns /\ updates \in 0..MaxUpdates
  BY Switches, Numbers DEF Init, NoTurn, Turns
<1>3. recent \in Seq(Errors) /\ Len(recent) <= StuckWindow
  BY Switches DEF Init, StuckWindow
<1> QED
  BY <1>1, <1>2, <1>3, Switches DEF Init, TypeOK, Turns

\* One more result keeps the window of the stuck tripwire within its length.
LEMMA PushTypeOK ==
  ASSUME TypeOK, NEW r \in Errors \cup {"ok"}, Push(r)
  PROVE  recent' \in Seq(Errors) /\ Len(recent') <= StuckWindow
<1>1. CASE r = "ok" \/ recent = <<>> \/ recent[1] # r
  <2>1. CASE r = "ok"
    BY <2>1 DEF Push, StuckWindow
  <2>2. CASE r # "ok"
    <3>1. r \in Errors /\ recent' = <<r>>
      BY <1>1, <2>2 DEF Push
    <3> QED
      BY <3>1 DEF StuckWindow
  <2> QED
    BY <2>1, <2>2
<1>2. CASE r # "ok" /\ recent # <<>> /\ recent[1] = r
  <2>1. r \in Errors /\ recent \in Seq(Errors) /\ Len(recent) <= StuckWindow
    BY <1>2 DEF TypeOK
  <2>2. CASE Len(recent) = StuckWindow
    BY <1>2, <2>1, <2>2 DEF Push
  <2>3. CASE Len(recent) # StuckWindow
    <3>1. recent' = Append(recent, r)
      BY <1>2, <2>3 DEF Push
    <3> QED
      <4>1. Len(recent) \in Nat /\ Len(recent') = Len(recent) + 1
        BY <2>1, <3>1
      <4>2. recent' \in Seq(Errors)
        BY <2>1, <3>1
      <4>3. Len(recent') <= StuckWindow
        <5>1. \A n \in Nat : n <= 3 /\ n # 3 => n + 1 <= 3
          OBVIOUS
        <5>2. Len(recent) <= 3 /\ Len(recent) # 3
          BY <2>1, <2>3, Zenon DEF StuckWindow
        <5>3. Len(recent) + 1 <= 3
          BY <4>1, <5>1, <5>2, Zenon
        <5> QED
          BY <4>1, <5>3, Zenon DEF StuckWindow
      <4> QED
        BY <4>2, <4>3
  <2> QED
    BY <2>2, <2>3
<1> QED
  BY <1>1, <1>2

\* A turn that has taken in the result of one of its calls is a turn.
LEMMA TakenType ==
  ASSUME TypeOK, turn.todo > 0, NEW c \in Calls, NEW r
  PROVE  Taken(c, r) \in Turns
<1>1. turn \in Turns
  BY DEF TypeOK, Turns
<1>2. turn.todo - 1 \in 0..MaxCalls
  BY <1>1, Numbers DEF Turns
<1> QED
  BY <1>1, <1>2, ZenonT(60) DEF Turns, Taken, Gather, EditClass

LEMMA ToolCallTypeOK == TypeOK /\ ToolCall => TypeOK'
<1> SUFFICES ASSUME TypeOK, ToolCall PROVE TypeOK'
  OBVIOUS
<1>1. PICK c \in Calls :
        \/ NotRun(c)
        \/ dispatch(c)
  BY DEF ToolCall
<1>2. /\ turn' \in Turns
      /\ recent' \in Seq(Errors) /\ Len(recent') <= StuckWindow
  <2>1. CASE NotRun(c)
    BY <2>1, <1>1, PushTypeOK, TakenType DEF NotRun, ToolCall, TypeOK
  <2>2. CASE dispatch(c)
    <3>1. PICK r \in Errors \cup {"ok"}, shows \in BOOLEAN, edits \in BOOLEAN :
            /\ turn' = [Taken(c, r) EXCEPT
                          !.claimed = @ \/ (c \in {"goal_complete", "submit_plan"} /\ r = "ok"),
                          !.edited = @ \/ edits,
                          !.image = @ \/ Wrapped(shows)]
            /\ Push(r)
      BY <2>2 DEF dispatch
    <3>2. turn' \in Turns
      BY <3>1, TakenType, ZenonT(60) DEF ToolCall, Turns, Wrapped, TypeOK
    <3> QED
      BY <3>1, <3>2, PushTypeOK
  <2> QED
    BY <1>1, <2>1, <2>2
<1> QED
  BY <1>2 DEF ToolCall, TypeOK, Turns, env, knobs, budget, ctx, ghosts

\* What Call adds to the turn, the counters and the context.
LEMMA CallTypeOK == TypeOK /\ Call => TypeOK'
<1> SUFFICES ASSUME TypeOK, Call PROVE TypeOK'
  OBVIOUS
<1>1. turn' \in Turns
  BY Numbers DEF Call, NoTurn, Turns
<1>2. calls' \in Nat /\ late' \in Nat
  <2>1. calls' = Count(calls) /\ late' \in {late, Count(late)}
    BY DEF Call
  <2>2. \A n \in Nat : Count(n) \in Nat
    BY DEF Count
  <2> QED
    BY <2>1, <2>2 DEF TypeOK
<1>3. used' \in Nat
  <2>1. PICK u \in Usages : used' = used + u
    BY DEF Call
  <2> QED
    BY <2>1, Numbers DEF TypeOK
<1>4. image' \in BOOLEAN /\ degraded' \in BOOLEAN
  BY DEF Call, TypeOK
<1>5. UNCHANGED <<mode, clock, abort, updates, maxIters, maxMinutes, iter, warned,
                  free, gate, check, held, mirror, recent, notices>>
  BY DEF Call, env, knobs, gates
<1>6. pc' = "tools" /\ outcome' = outcome
  BY DEF Call, Goto
<1> QED
  BY <1>1, <1>2, <1>3, <1>4, <1>5, <1>6 DEF TypeOK, Turns

LEMMA VerifyTypeOK == TypeOK /\ verify => TypeOK'
<1> SUFFICES ASSUME TypeOK, verify PROVE TypeOK'
  OBVIOUS
<1>1. PICK verdict \in {"nocheck", "accepted", "failed", "blocked"} :
        /\ CASE verdict = "nocheck" -> NoCheckConfigured
             [] verdict = "blocked" -> CheckBlocked
             [] OTHER               -> CheckRuns
        /\ turn' = [turn EXCEPT !.verdict = verdict]
        /\ IF Rejects(verdict) THEN Goto("after") ELSE Finish("goal")
  BY DEF verify
<1>2. turn' \in Turns
  BY <1>1 DEF TypeOK, Turns
<1>3. pc' \in {"after", "done"} /\ outcome' \in Outcomes \cup {"none"}
  BY <1>1 DEF Goto, Finish, TypeOK, Outcomes
<1>4. UNCHANGED <<mode, clock, abort, updates, held, maxIters, maxMinutes, iter, used, warned,
                  free, gate, check, image, mirror, degraded, recent, calls, late, notices>>
  BY DEF verify, env, knobs, budget, ctx, ghosts
<1> QED
  BY <1>2, <1>3, <1>4 DEF TypeOK, Turns

LEMMA EndTurnTypeOK == TypeOK /\ EndTurn => TypeOK'
<1> SUFFICES ASSUME TypeOK, EndTurn PROVE TypeOK'
  OBVIOUS
<1>1. PICK accepted \in BOOLEAN, kept \in BOOLEAN, collapsed \in BOOLEAN :
        /\ image' = (~collapsed /\ ((IF accepted THEN kept /\ mirror = "image" ELSE image)
                                    \/ turn.image))
        /\ Account(turn.count > 0 /\ turn.editOnly /\ accepted)
  BY DEF EndTurn
<1>2. iter' \in Nat /\ free' \in Nat
  BY <1>1 DEF Account, TypeOK
<1>3. image' \in BOOLEAN
  BY <1>1, Zenon DEF TypeOK
<1>4. turn' \in Turns
  BY Numbers DEF EndTurn, NoTurn, Turns
<1>5. pc' = "top" /\ outcome' = outcome /\ mirror' = "none"
  BY DEF EndTurn, Goto
<1>6. UNCHANGED <<mode, clock, abort, updates, held, maxIters, maxMinutes, used, warned,
                  gate, check, degraded, recent, calls, late, notices>>
  BY DEF EndTurn, env, knobs, ghosts
<1> QED
  BY <1>2, <1>3, <1>4, <1>5, <1>6 DEF TypeOK, Turns

LEMMA NextTypeOK == TypeOK /\ [Next]_vars => TypeOK'
<1> SUFFICES ASSUME TypeOK, [Next]_vars PROVE TypeOK'
  OBVIOUS
<1> USE DEF Goto, Finish, env, knobs, budget, gates, ctx, ghosts
<1>1. CASE UNCHANGED vars
  BY <1>1 DEF vars, TypeOK
<1>2. CASE Tick
  BY <1>2, Numbers DEF Tick, TypeOK
<1>3. CASE OperatorAborts
  BY <1>3 DEF OperatorAborts, TypeOK
<1>20. CASE CallHangs
  BY <1>20 DEF CallHangs, TypeOK
<1>4. CASE Top
  <2>1. Exceeded \in {"iterations", "minutes", "tokens", "abort", "none"}
    BY DEF Exceeded
  <2>2. pc' \in {"drain", "done"} /\ outcome' \in Outcomes \cup {"none"}
    BY <1>4, <2>1 DEF Top, TypeOK, Outcomes
  <2> QED
    BY <1>4, <2>2 DEF Top, TypeOK
<1>5. CASE Drain
  BY <1>5 DEF Drain, TypeOK
<1>6. CASE NoSlash
  BY <1>6 DEF NoSlash, TypeOK
<1>7. CASE MirrorAndReadSpec
  <2>1. mirror' \in {"none", "plain", "image"} /\ check' \in Checks \cup {NoCheck}
    BY <1>7 DEF MirrorAndReadSpec, TypeOK
  <2> QED
    BY <1>7, <2>1 DEF MirrorAndReadSpec, TypeOK
<1>8. CASE ApplySlash
  <2>1. /\ updates' \in 0..MaxUpdates /\ check' \in Checks \cup {NoCheck}
        /\ maxIters' \in IterLimits /\ maxMinutes' \in MinuteLimits
    BY <1>8, Numbers, SMTT(30) DEF ApplySlash, TypeOK
  <2> QED
    BY <1>8, <2>1 DEF ApplySlash, TypeOK
<1>9. CASE budget_low_notice
  <2>1. warned' \subseteq Kinds
    BY <1>9 DEF budget_low_notice, TypeOK, Low
  <2>2. notices' \in Nat
    BY <1>9, Numbers DEF budget_low_notice, TypeOK, Count
  <2> QED
    BY <1>9, <2>1, <2>2 DEF budget_low_notice, TypeOK
<1>10. CASE Call
  BY <1>10, CallTypeOK
<1>11. CASE Fails
  BY <1>11 DEF Fails, TypeOK, Outcomes
<1>12. CASE ToolCall
  BY <1>12, ToolCallTypeOK
<1>13. CASE ToolsDone
  BY <1>13 DEF ToolsDone, TypeOK
<1>14. CASE NaturalStop
  BY <1>14 DEF NaturalStop, TypeOK, Outcomes
<1>15. CASE PlanSubmitted
  BY <1>15 DEF PlanSubmitted, TypeOK, Outcomes
<1>16. CASE verify
  BY <1>16, VerifyTypeOK
<1>17. CASE JustWork
  BY <1>17 DEF JustWork, TypeOK
<1>18. CASE Stuck
  <2>1. image' \in BOOLEAN
    BY <1>18, Zenon DEF Stuck
  <2> QED
    BY <1>18, <2>1 DEF Stuck, TypeOK, Outcomes
<1>19. CASE EndTurn
  BY <1>19, EndTurnTypeOK
<1> QED
  BY <1>1, <1>2, <1>3, <1>4, <1>5, <1>6, <1>7, <1>8, <1>9, <1>10, <1>11, <1>12,
     <1>13, <1>14, <1>15, <1>16, <1>17, <1>18, <1>19, <1>20 DEF Next, LoopStep

\* Every variable of the loop keeps its type, whatever the model, the tools,
\* the clock and the operator do: the counters stay natural numbers and the
\* window of the stuck tripwire keeps its length.
THEOREM TypeCorrect == Spec => []TypeOK
  BY InitTypeOK, NextTypeOK, PTL DEF Spec

-----------------------------------------------------------------------------
(* Exit code 0 is earned.  What has to be known before the verdict: a turn  *)
(* that may end the session holds a call that ran, and nothing has ended    *)
(* the session before.                                                      *)

ClaimsRan == turn.goal \/ turn.plan => turn.claimed
OpenTillDone == pc # "done" => outcome = "none"

EarnedInv == TypeOK /\ ClaimsRan /\ OpenTillDone /\ SuccessIsEarned

\* A step that leaves the turn and the outcome open disturbs nothing.
LEMMA QuietTurn ==
  ASSUME EarnedInv, UNCHANGED turn, UNCHANGED outcome, pc # "done"
  PROVE  ClaimsRan' /\ OpenTillDone' /\ SuccessIsEarned'
  BY DEF EarnedInv, ClaimsRan, OpenTillDone, SuccessIsEarned

LEMMA TakenClaims ==
  ASSUME TypeOK, turn.todo > 0, NEW c \in Calls, NEW r, Taken(c, r).goal \/ Taken(c, r).plan
  PROVE  \/ turn.goal \/ turn.plan
         \/ r = "ok" /\ c \in {"goal_complete", "submit_plan"}
<1>1. turn \in Turns
  BY DEF TypeOK, Turns
<1> QED
  BY <1>1 DEF Turns, Taken, Gather

LEMMA TakenKeepsClaim ==
  ASSUME TypeOK, NEW c \in Calls, NEW r
  PROVE  Taken(c, r).claimed = turn.claimed
<1>1. turn \in Turns
  BY DEF TypeOK, Turns
<1> QED
  BY <1>1 DEF Turns, Taken, Gather

LEMMA EarnedStep == EarnedInv /\ [Next]_vars => EarnedInv'
<1> SUFFICES ASSUME EarnedInv, [Next]_vars PROVE EarnedInv'
  OBVIOUS
<1>1. TypeOK'
  BY NextTypeOK DEF EarnedInv
<1>2. TypeOK /\ turn \in Turns
  BY DEF EarnedInv, TypeOK, Turns
<1>3. CASE UNCHANGED <<turn, pc, outcome, check>>
  BY <1>1, <1>3 DEF EarnedInv, ClaimsRan, OpenTillDone, SuccessIsEarned
<1>4. CASE ApplySlash \/ Drain \/ NoSlash \/ budget_low_notice \/ MirrorAndReadSpec
           \/ ToolsDone \/ JustWork
  <2>1. UNCHANGED turn /\ UNCHANGED outcome /\ pc # "done"
    BY <1>4 DEF ApplySlash, Drain, NoSlash, budget_low_notice, MirrorAndReadSpec,
                ToolsDone, JustWork, Goto
  <2> QED
    BY <1>1, <2>1, QuietTurn DEF EarnedInv
<1>5. CASE Top \/ Fails \/ NaturalStop \/ Stuck
  <2>1. /\ UNCHANGED turn /\ pc # "done"
        /\ \/ UNCHANGED outcome
           \/ pc' = "done" /\ outcome' \notin {"goal", "plan"}
    <3>1. Exceeded \notin {"goal", "plan"}
      BY DEF Exceeded
    <3> QED
      BY <1>5, <3>1 DEF Top, Fails, NaturalStop, Stuck, Goto, Finish
  <2>2. CASE pc' = "done" /\ outcome' \notin {"goal", "plan"}
    BY <1>1, <2>1, <2>2 DEF EarnedInv, ClaimsRan, OpenTillDone, SuccessIsEarned
  <2> QED
    BY <1>1, <2>1, <2>2, QuietTurn DEF EarnedInv
<1>6. CASE Call \/ EndTurn
  <2>1. ~turn'.goal /\ ~turn'.plan
    <3>1. turn' = NoTurn \/ \E n \in 0..MaxCalls : turn' = [NoTurn EXCEPT !.todo = n, !.count = n]
      BY <1>6 DEF Call, EndTurn
    <3>2. CASE turn' = NoTurn
      BY <3>2 DEF NoTurn
    <3>3. ASSUME NEW n \in 0..MaxCalls, turn' = [NoTurn EXCEPT !.todo = n, !.count = n]
          PROVE  ~turn'.goal /\ ~turn'.plan
      BY <3>3 DEF NoTurn
    <3> QED
      BY <3>1, <3>2, <3>3
  <2>2. UNCHANGED outcome /\ pc # "done"
    BY <1>6 DEF Call, EndTurn, Goto
  <2>3. outcome' = "none"
    BY <2>2 DEF EarnedInv, OpenTillDone
  <2> QED
    BY <1>1, <2>1, <2>3 DEF EarnedInv, ClaimsRan, OpenTillDone, SuccessIsEarned
<1>7. CASE ToolCall
  <2>1. outcome' = "none" /\ turn.todo > 0
    BY <1>7 DEF ToolCall, EarnedInv, OpenTillDone
  <2>2. PICK c \in Calls : NotRun(c) \/ dispatch(c)
    BY <1>7 DEF ToolCall
  <2>3. CASE NotRun(c)
    <3>1. PICK r \in Errors : turn' = Taken(c, r)
      BY <2>3 DEF NotRun
    <3>2. r # "ok"
      BY <3>1, ParametersAssumption
    <3>3. ClaimsRan'
      BY <1>2, <2>1, <3>1, <3>2, TakenClaims, TakenKeepsClaim DEF EarnedInv, ClaimsRan
    <3> QED
      BY <1>1, <2>1, <3>3 DEF EarnedInv, OpenTillDone, SuccessIsEarned
  <2>4. CASE dispatch(c)
    <3>1. PICK r \in Errors \cup {"ok"}, shows \in BOOLEAN, edits \in BOOLEAN :
            turn' = [Taken(c, r) EXCEPT
                       !.claimed = @ \/ (c \in {"goal_complete", "submit_plan"} /\ r = "ok"),
                       !.edited = @ \/ edits,
                       !.image = @ \/ Wrapped(shows)]
      BY <2>4 DEF dispatch
    <3>2. Taken(c, r) \in Turns
      BY <1>2, <2>1, TakenType
    <3>3. /\ turn'.goal = Taken(c, r).goal
          /\ turn'.plan = Taken(c, r).plan
          /\ turn'.claimed = (Taken(c, r).claimed
                               \/ (c \in {"goal_complete", "submit_plan"} /\ r = "ok"))
      BY <3>1, <3>2 DEF Turns
    <3>4. ClaimsRan'
      BY <1>2, <2>1, <3>3, TakenClaims, TakenKeepsClaim DEF EarnedInv, ClaimsRan
    <3> QED
      BY <1>1, <2>1, <3>4 DEF EarnedInv, OpenTillDone, SuccessIsEarned
  <2> QED
    BY <2>2, <2>3, <2>4
<1>8. CASE PlanSubmitted
  <2>1. turn' = turn /\ turn.plan /\ outcome' = "plan" /\ pc' = "done"
    BY <1>8 DEF PlanSubmitted, Finish
  <2> QED
    BY <1>1, <2>1 DEF EarnedInv, ClaimsRan, OpenTillDone, SuccessIsEarned
<1>9. CASE verify
  <2>1. PICK verdict \in {"nocheck", "accepted", "failed", "blocked"} :
          /\ CASE verdict = "nocheck" -> NoCheckConfigured
               [] verdict = "blocked" -> CheckBlocked
               [] OTHER               -> CheckRuns
          /\ turn' = [turn EXCEPT !.verdict = verdict]
          /\ IF Rejects(verdict) THEN Goto("after") ELSE Finish("goal")
    BY <1>9 DEF verify
  <2>2. turn.goal /\ turn.claimed /\ outcome = "none" /\ check' = check
    BY <1>9 DEF verify, EarnedInv, ClaimsRan, OpenTillDone
  <2>3. /\ turn'.goal = turn.goal /\ turn'.plan = turn.plan
        /\ turn'.claimed = turn.claimed /\ turn'.verdict = verdict
    BY <1>2, <2>1 DEF Turns
  <2>4. CASE Rejects(verdict)
    BY <1>1, <2>1, <2>2, <2>3, <2>4
       DEF Goto, EarnedInv, ClaimsRan, OpenTillDone, SuccessIsEarned
  <2>5. CASE ~Rejects(verdict)
    <3>1. \/ verdict = "nocheck" /\ check = NoCheck
          \/ verdict = "accepted" /\ check # NoCheck /\ check \notin Denied
      BY <2>1, <2>5 DEF Rejects, NoCheckConfigured, CheckRuns, PermissionDenies
    <3>2. SuccessIsEarned'
      BY <2>2, <2>3, <3>1 DEF SuccessIsEarned
    <3> QED
      BY <1>1, <2>1, <2>2, <2>3, <2>5, <3>2
         DEF Finish, EarnedInv, ClaimsRan, OpenTillDone
  <2> QED
    BY <2>4, <2>5
<1>10. CASE Tick \/ OperatorAborts \/ CallHangs \/ UNCHANGED vars
  BY <1>3, <1>10 DEF Tick, OperatorAborts, CallHangs, vars, gates
<1> QED
  BY <1>4, <1>5, <1>6, <1>7, <1>8, <1>9, <1>10 DEF Next, LoopStep

\* For any modes, commands, rules and check commands: the session ends with
\* success only if in its last turn the claiming tool ran unblocked and the
\* check, where there is one, ran and passed (driver.rs, drive_loop, verify).
THEOREM SuccessEarned == Spec => []SuccessIsEarned
<1>1. Init => EarnedInv
  <2> SUFFICES ASSUME Init PROVE EarnedInv
    OBVIOUS
  <2>1. turn = NoTurn /\ outcome = "none"
    BY Switches DEF Init
  <2>2. ~turn.goal /\ ~turn.plan
    BY <2>1 DEF NoTurn
  <2> QED
    BY <2>1, <2>2, InitTypeOK DEF EarnedInv, ClaimsRan, OpenTillDone, SuccessIsEarned
<1>2. EarnedInv => SuccessIsEarned
  BY DEF EarnedInv
<1> QED
  BY <1>1, <1>2, EarnedStep, PTL DEF Spec

-----------------------------------------------------------------------------
(* The number of requests.  Each counted turn may be preceded by MaxFree    *)
(* free ones; the request under way is not accounted yet.                   *)

Privilege == IF free < MaxFree THEN free ELSE MaxFree
UnderWay  == IF pc \in {"tools", "turn", "after", "done"} THEN 1 ELSE 0

CallsInv == TypeOK /\ calls <= iter + MaxFree * iter + Privilege + UnderWay

\* Every step but the request and the accounting leaves the counters alone.
LEMMA QuietCounters ==
  ASSUME TypeOK, [Next]_vars, ~Call, ~EndTurn
  PROVE  /\ UNCHANGED <<calls, iter, free>>
         /\ UnderWay' >= UnderWay
<1>1. UNCHANGED <<calls, iter, free>>
  BY DEF Next, LoopStep, vars, Tick, OperatorAborts, CallHangs, Top, Drain, ApplySlash, NoSlash,
         budget_low_notice, MirrorAndReadSpec, Fails, ToolCall, ToolsDone, NaturalStop,
         PlanSubmitted, verify, JustWork, Stuck, ghosts, budget
<1>2. pc \in {"tools", "turn", "after", "done"} => pc' \in {"tools", "turn", "after", "done"}
  BY DEF Next, LoopStep, vars, Tick, OperatorAborts, CallHangs, Top, Drain, ApplySlash, NoSlash,
         budget_low_notice, MirrorAndReadSpec, Fails, ToolCall, ToolsDone, NaturalStop,
         PlanSubmitted, verify, JustWork, Stuck, Goto, Finish
<1> QED
  BY <1>1, <1>2 DEF UnderWay

LEMMA AccountKeepsBound ==
  ASSUME NEW m \in Nat, NEW i \in Nat, NEW f \in Nat, NEW c \in Nat,
         c <= i + m * i + (IF f < m THEN f ELSE m) + 1
  PROVE  /\ f < m => c <= i + m * i + (f + 1)
         /\ c <= (i + 1) + m * (i + 1)
<1>1. m * (i + 1) = m * i + m /\ m * i \in Nat
  OBVIOUS
<1> QED
  BY <1>1

LEMMA CallsStep == CallsInv /\ [Next]_vars => CallsInv'
<1> SUFFICES ASSUME CallsInv, [Next]_vars PROVE CallsInv'
  OBVIOUS
<1>1. TypeOK'
  BY NextTypeOK DEF CallsInv
<1>2. /\ MaxFree \in Nat /\ iter \in Nat /\ free \in Nat /\ calls \in Nat
      /\ MaxFree * iter \in Nat
  BY Numbers, SMTT(30) DEF CallsInv, TypeOK
<1>3. CASE Call
  <2>1. /\ UNCHANGED <<iter, free>> /\ pc = "call" /\ pc' = "tools"
        /\ calls' = Count(calls)
    BY <1>3 DEF Call, Goto
  <2>2. Count(calls) <= calls + 1
    BY <1>2, Numbers DEF Count
  <2>3. UnderWay = 0 /\ UnderWay' = 1 /\ Privilege' = Privilege /\ Privilege \in Nat
    BY <1>2, <2>1 DEF UnderWay, Privilege
  <2>4. calls' \in Nat
    BY <1>1 DEF TypeOK
  <2>5. calls' <= iter + MaxFree * iter + Privilege + 1
    BY <1>2, <2>1, <2>2, <2>3, <2>4 DEF CallsInv
  <2> QED
    BY <1>1, <2>1, <2>3, <2>5 DEF CallsInv
<1>4. CASE EndTurn
  <2>1. PICK isFree \in BOOLEAN : Account(isFree)
    BY <1>4, Zenon DEF EndTurn
  <2>2. calls' = calls /\ UnderWay = 1 /\ UnderWay' = 0
    BY <1>4 DEF EndTurn, Goto, ghosts, UnderWay
  <2>3. calls <= iter + MaxFree * iter + (IF free < MaxFree THEN free ELSE MaxFree) + 1
    BY <2>2 DEF CallsInv, Privilege
  <2>4. /\ free < MaxFree => calls <= iter + MaxFree * iter + (free + 1)
        /\ calls <= (iter + 1) + MaxFree * (iter + 1)
    BY <1>2, <2>3, AccountKeepsBound
  <2>5. CASE isFree /\ free < MaxFree
    <3>1. free' = free + 1 /\ iter' = iter
      BY <2>1, <2>5 DEF Account
    <3>2. Privilege' = free + 1
      BY <1>2, <2>5, <3>1 DEF Privilege
    <3> QED
      BY <1>1, <1>2, <2>2, <2>4, <2>5, <3>1, <3>2 DEF CallsInv
  <2>6. CASE ~(isFree /\ free < MaxFree)
    <3>1. iter' = iter + 1
      BY <2>1, <2>6 DEF Account
    <3>2. Privilege' \in Nat
      BY <1>1, <1>2 DEF Privilege, TypeOK
    <3>3. MaxFree * (iter + 1) \in Nat
      BY <1>2
    <3>4. calls' <= iter' + MaxFree * iter'
      BY <2>2, <2>4, <3>1, Zenon
    <3>5. MaxFree * iter' \in Nat /\ iter' \in Nat /\ calls' \in Nat
      BY <1>2, <2>2, <3>1, <3>3
    <3>6. calls' <= iter' + MaxFree * iter' + Privilege' + UnderWay'
      BY <2>2, <3>2, <3>4, <3>5
    <3> QED
      BY <1>1, <3>6 DEF CallsInv
  <2> QED
    BY <2>5, <2>6
<1>5. CASE ~Call /\ ~EndTurn
  <2>1. UNCHANGED <<calls, iter, free>> /\ UnderWay' >= UnderWay
    BY <1>5, QuietCounters DEF CallsInv
  <2>2. Privilege' = Privilege /\ Privilege \in Nat
    BY <1>2, <2>1 DEF Privilege
  <2>3. UnderWay \in 0..1 /\ UnderWay' \in 0..1
    BY DEF UnderWay
  <2>4. calls <= iter + MaxFree * iter + Privilege + UnderWay
    BY DEF CallsInv
  <2>5. calls <= iter + MaxFree * iter + Privilege + UnderWay'
    <3>1. \A c, x, u, v \in Int : c <= x + u /\ u <= v => c <= x + v
      OBVIOUS
    <3>2. iter + MaxFree * iter + Privilege \in Int
      BY <1>2, <2>2
    <3>3. UnderWay \in Int /\ UnderWay' \in Int /\ UnderWay <= UnderWay' /\ calls \in Int
      BY <1>2, <2>1, <2>3
    <3> QED
      BY <2>4, <3>1, <3>2, <3>3, Zenon
  <2>6. calls' <= iter' + MaxFree * iter' + Privilege' + UnderWay'
    BY <2>1, <2>2, <2>5, Zenon
  <2> QED
    BY <1>1, <2>6 DEF CallsInv
<1> QED
  BY <1>3, <1>4, <1>5

\* For any limits, any MaxFree and any behaviour of the model: free LIVE_CTX
\* turns multiply the requests of an invocation by MaxFree + 1 at the most
\* (driver.rs, the accounting at the end of drive_loop).
THEOREM RequestsBounded == Spec => []CallsBounded
<1>1. Init => CallsInv
  <2> SUFFICES ASSUME Init PROVE CallsInv
    OBVIOUS
  <2>1. calls = 0 /\ iter = 0 /\ free = 0 /\ pc = "top"
    BY Switches DEF Init
  <2>2. MaxFree * iter = 0 /\ Privilege \in Nat /\ UnderWay = 0
    BY <2>1, Numbers DEF Privilege, UnderWay
  <2> QED
    BY InitTypeOK, <2>1, <2>2 DEF CallsInv
<1>2. CallsInv => CallsBounded
  <2> SUFFICES ASSUME CallsInv PROVE CallsBounded
    OBVIOUS
  <2>1. MaxFree \in Nat /\ iter \in Nat /\ free \in Nat /\ calls \in Nat
    BY Numbers DEF CallsInv, TypeOK
  <2>2. Privilege \in 0..MaxFree /\ UnderWay \in 0..1
    BY <2>1 DEF Privilege, UnderWay
  <2>3. MaxFree * (iter + 1) = MaxFree * iter + MaxFree /\ MaxFree * iter \in Nat
    BY <2>1
  <2> QED
    BY <2>1, <2>2, <2>3 DEF CallsInv, CallsBounded
<1> QED
  BY <1>1, <1>2, CallsStep, PTL DEF Spec

-----------------------------------------------------------------------------
(* A late request is the last one: the reason to stop that it passed over   *)
(* is still there when the loop comes to its top again, since only a slash  *)
(* command takes one back and those are read below the top.                 *)

LateIsLast ==
    /\ late \in 0..1
    /\ late = 1 => StopDue /\ pc \in {"tools", "turn", "after", "top", "done"}

StopsInv == TypeOK /\ LateIsLast

LEMMA StopDueStays ==
  ASSUME TypeOK, StopDue, UNCHANGED <<maxMinutes, used>>,
         abort => abort', clock' >= clock, clock' \in Nat
  PROVE  StopDue'
<1>1. maxMinutes \in Nat /\ clock \in Nat
  BY Numbers DEF TypeOK
<1> QED
  BY <1>1 DEF StopDue, TokensSpent

LEMMA StopsStep == StopsInv /\ [Next]_vars => StopsInv'
<1> SUFFICES ASSUME StopsInv, [Next]_vars PROVE StopsInv'
  OBVIOUS
<1>1. TypeOK /\ TypeOK'
  BY NextTypeOK DEF StopsInv
<1>2. CASE Call
  <2>1. late = 0
    BY <1>2 DEF Call, StopsInv, LateIsLast
  <2>2. late' = (IF StopDue THEN Count(0) ELSE 0) /\ Count(0) \in 0..1
    BY <1>2, <2>1, Numbers DEF Call, Count
  <2>3. pc' = "tools" /\ UNCHANGED <<abort, clock, maxMinutes>>
    BY <1>2 DEF Call, Goto, env, knobs
  <2>4. used' >= used /\ used' \in Nat /\ used \in Nat /\ MaxTokens \in Nat
    <3>1. PICK u \in Usages : used' = used + u
      BY <1>2 DEF Call
    <3>2. u \in Nat /\ MaxTokens \in Nat
      BY Numbers
    <3>3. used \in Nat
      BY <1>1 DEF TypeOK
    <3> QED
      BY <3>1, <3>2, <3>3
  <2>5. StopDue => StopDue'
    BY <2>3, <2>4 DEF StopDue, TokensSpent
  <2> QED
    BY <1>1, <2>2, <2>3, <2>5 DEF StopsInv, LateIsLast
<1>3. CASE ~Call /\ late = 0
  <2>1. late' = late
    BY <1>3 DEF Next, LoopStep, vars, Tick, OperatorAborts, CallHangs, Top, Drain, ApplySlash, NoSlash,
         budget_low_notice, MirrorAndReadSpec, Fails, ToolCall, ToolsDone, NaturalStop,
         PlanSubmitted, verify, JustWork, Stuck, EndTurn, ghosts
  <2> QED
    BY <1>1, <1>3, <2>1 DEF StopsInv, LateIsLast
<1>4. CASE ~Call /\ late = 1
  <2>1. StopDue /\ pc \in {"tools", "turn", "after", "top", "done"}
    BY <1>4 DEF StopsInv, LateIsLast
  <2>2. UNCHANGED <<late, maxMinutes, used>>
    BY <1>4, <2>1 DEF Next, LoopStep, vars, Tick, OperatorAborts, CallHangs, Top, Drain, ApplySlash,
         NoSlash, budget_low_notice, MirrorAndReadSpec, Fails, ToolCall, ToolsDone,
         NaturalStop, PlanSubmitted, verify, JustWork, Stuck, EndTurn, ghosts, knobs, budget
  <2>3. (abort => abort') /\ clock' >= clock
    <3>1. CASE Tick
      BY <1>1, <3>1 DEF Tick, TypeOK
    <3>2. CASE OperatorAborts
      BY <1>1, <3>2 DEF OperatorAborts, TypeOK
    <3>4. CASE CallHangs
      BY <1>1, <3>4 DEF CallHangs, TypeOK
    <3>3. CASE ~Tick /\ ~OperatorAborts /\ ~CallHangs
      <4>1. UNCHANGED <<abort, clock>>
        BY <1>4, <2>1, <3>3 DEF Next, LoopStep, vars, Top, Drain, ApplySlash,
           NoSlash, budget_low_notice, MirrorAndReadSpec, Fails, ToolCall, ToolsDone,
           NaturalStop, PlanSubmitted, verify, JustWork, Stuck, EndTurn, env
      <4> QED
        BY <1>1, <4>1 DEF TypeOK
    <3> QED
      BY <3>1, <3>2, <3>3, <3>4
  <2>4. StopDue'
    BY <1>1, <2>1, <2>2, <2>3, StopDueStays DEF TypeOK
  <2>5. pc' \in {"tools", "turn", "after", "top", "done"}
    <3>1. CASE Top
      <4>1. Exceeded # "none"
        BY <2>1 DEF Exceeded, StopDue
      <4> QED
        BY <3>1, <4>1 DEF Top, Finish
    <3>2. CASE ~Top
      BY <1>4, <2>1, <3>2 DEF Next, LoopStep, vars, Tick, OperatorAborts, CallHangs, Drain, ApplySlash,
         NoSlash, budget_low_notice, MirrorAndReadSpec, Fails, ToolCall, ToolsDone,
         NaturalStop, PlanSubmitted, verify, JustWork, Stuck, EndTurn, Goto, Finish
    <3> QED
      BY <3>1, <3>2
  <2> QED
    BY <1>1, <1>4, <2>2, <2>4, <2>5 DEF StopsInv, LateIsLast
<1> QED
  BY <1>2, <1>3, <1>4 DEF StopsInv, LateIsLast

\* For any limits, any usage and any slash commands: once the operator has
\* aborted, or the time or the tokens are spent, at most one more request is
\* made (driver.rs, the checks at the top of drive_loop).
THEOREM StopsAtTheBoundary == Spec => []StopsInTime
<1>1. Init => StopsInv
  <2> SUFFICES ASSUME Init PROVE StopsInv
    OBVIOUS
  <2>1. late = 0
    BY Switches DEF Init
  <2> QED
    BY <2>1, InitTypeOK DEF StopsInv, LateIsLast
<1>2. StopsInv => StopsInTime
  BY DEF StopsInv, LateIsLast, StopsInTime
<1> QED
  BY <1>1, <1>2, StopsStep, PTL DEF Spec

-----------------------------------------------------------------------------
(* The budget-low messages.  Each latches at least one kind that was not    *)
(* latched before, so there are no more of them than latched kinds.  And an *)
(* iteration that goes past the notice without the iteration latch has more *)
(* than one iteration left; /budget is read before the notice, so the limit *)
(* cannot move under it, and the accounting takes one iteration at most.    *)

Latched(k) == IF k \in warned THEN 1 ELSE 0

NoticesLatch ==
    /\ notices <= Latched("iters") + Latched("time") + Latched("tokens")
    /\ warned # {} => notices > 0

\* What is left of the iteration budget where nothing has been said of it.
RoomLeft ==
    "iters" \notin warned =>
        /\ pc \in {"mirror", "call", "tools", "turn", "after"} => maxIters > iter + 1
        /\ pc = "top" /\ calls > 0 => maxIters > iter
        /\ outcome = "iterations" => calls = 0

WarnedInv == TypeOK /\ OpenTillDone /\ NoticesLatch /\ RoomLeft

LEMMA NoticeStep ==
  ASSUME WarnedInv, budget_low_notice
  PROVE  NoticesLatch' /\ RoomLeft'
<1>1. /\ pc = "notice" /\ pc' = "mirror" /\ UNCHANGED <<outcome, iter, maxIters>>
      /\ notices' = IF Low \subseteq warned THEN notices ELSE Count(notices)
      /\ warned' = warned \cup Low
  BY DEF budget_low_notice, Goto, knobs
<1>2. /\ notices \in Nat /\ warned \subseteq Kinds /\ Low \subseteq Kinds
      /\ iter \in Nat /\ maxIters \in Nat /\ WarnIters \in Nat /\ WarnIters # 0
      /\ MaxHistory \in Nat /\ MaxHistory # 0
  BY ParametersAssumption DEF WarnedInv, TypeOK, Low
<1>3. NoticesLatch'
  <2>1. CASE Low \subseteq warned
    <3>1. warned' = warned /\ notices' = notices
      BY <1>1, <2>1
    <3> QED
      BY <3>1 DEF WarnedInv, NoticesLatch, Latched
  <2>2. CASE ~(Low \subseteq warned)
    <3>1. PICK k \in Kinds : k \in warned' /\ k \notin warned
      BY <1>1, <1>2, <2>2
    <3>2. \A j \in Kinds : j \in warned => j \in warned'
      BY <1>1
    <3>3. notices' = Count(notices)
      BY <1>1, <2>2
    <3>4. notices' > 0 /\ notices' <= notices + 1
      BY <1>2, <3>3 DEF Count
    <3>5. Latched("iters") + Latched("time") + Latched("tokens") + 1
            <= Latched("iters")' + Latched("time")' + Latched("tokens")'
      BY <3>1, <3>2 DEF Latched, Kinds
    <3>6. \A j \in Kinds : Latched(j) \in Nat /\ Latched(j)' \in Nat
      BY DEF Latched
    <3>7. notices <= Latched("iters") + Latched("time") + Latched("tokens")
      BY DEF WarnedInv, NoticesLatch
    <3>8. notices' \in Nat
      BY <1>2, <3>3 DEF Count
    <3> QED
      BY <1>2, <3>4, <3>5, <3>6, <3>7, <3>8 DEF NoticesLatch, Kinds
  <2> QED
    BY <2>1, <2>2
<1>4. RoomLeft'
  <2>1. "iters" \notin warned' => maxIters' > iter' + 1
    <3> SUFFICES ASSUME "iters" \notin warned' PROVE maxIters > iter + 1
      BY <1>1
    <3>1. ~(Left(maxIters, iter) <= WarnIters)
      BY <1>1 DEF Low, Kinds
    <3> QED
      BY <1>2, <3>1 DEF Left
  <2>2. outcome' = "none"
    BY <1>1 DEF WarnedInv, OpenTillDone
  <2> QED
    BY <1>1, <2>1, <2>2 DEF RoomLeft
<1> QED
  BY <1>3, <1>4

LEMMA WarnedStep == WarnedInv /\ [Next]_vars => WarnedInv'
<1> SUFFICES ASSUME WarnedInv, [Next]_vars PROVE WarnedInv'
  OBVIOUS
<1>1. TypeOK /\ TypeOK'
  BY NextTypeOK DEF WarnedInv
<1>2. /\ iter \in Nat /\ maxIters \in Nat /\ calls \in Nat
      /\ iter' \in Nat /\ maxIters' \in Nat /\ calls' \in Nat
  BY <1>1, Numbers DEF TypeOK
<1>3. OpenTillDone'
  <2>1. \/ pc' = pc /\ outcome' = outcome
        \/ pc' = "done"
        \/ pc # "done" /\ outcome' = outcome
    <3>1. CASE Tick \/ OperatorAborts \/ CallHangs \/ UNCHANGED vars
      BY <3>1 DEF Tick, OperatorAborts, CallHangs, vars
    <3>2. CASE Fails \/ PlanSubmitted \/ Stuck
      BY <3>2 DEF Fails, PlanSubmitted, Stuck, Finish
    <3>3. CASE Top
      BY <3>3 DEF Top, Goto, Finish
    <3>4. CASE NaturalStop
      BY <3>4 DEF NaturalStop, Goto, Finish
    <3>5. CASE verify
      <4>1. PICK verdict : IF Rejects(verdict) THEN Goto("after") ELSE Finish("goal")
        BY <3>5 DEF verify
      <4> QED
        BY <3>5, <4>1 DEF verify, Goto, Finish
    <3>6. CASE \/ Drain \/ ApplySlash \/ NoSlash \/ budget_low_notice \/ MirrorAndReadSpec
               \/ Call \/ ToolCall \/ ToolsDone \/ JustWork \/ EndTurn
      BY <3>6 DEF Drain, ApplySlash, NoSlash, budget_low_notice, MirrorAndReadSpec, Call,
                  ToolCall, ToolsDone, JustWork, EndTurn, Goto
    <3> QED
      BY <3>1, <3>2, <3>3, <3>4, <3>5, <3>6 DEF Next, LoopStep
  <2> QED
    BY <2>1 DEF WarnedInv, OpenTillDone
<1>4. CASE budget_low_notice
  BY <1>1, <1>3, <1>4, NoticeStep DEF WarnedInv
<1>5. ASSUME ~budget_low_notice PROVE NoticesLatch' /\ UNCHANGED warned
  <2>1. UNCHANGED <<notices, warned>>
    BY <1>5 DEF Next, LoopStep, vars, Tick, OperatorAborts, CallHangs, Top, Drain, ApplySlash, NoSlash,
         MirrorAndReadSpec, Call, Fails, ToolCall, ToolsDone, NaturalStop, PlanSubmitted,
         verify, JustWork, Stuck, EndTurn, ghosts, budget
  <2> QED
    BY <2>1 DEF WarnedInv, NoticesLatch, Latched
<1>6. ASSUME ~budget_low_notice PROVE RoomLeft'
  <2> SUFFICES ASSUME "iters" \notin warned
               PROVE  /\ pc' \in {"mirror", "call", "tools", "turn", "after"}
                            => maxIters' > iter' + 1
                      /\ pc' = "top" /\ calls' > 0 => maxIters' > iter'
                      /\ outcome' = "iterations" => calls' = 0
    BY <1>5, <1>6 DEF RoomLeft
  <2>1. /\ pc \in {"mirror", "call", "tools", "turn", "after"} => maxIters > iter + 1
        /\ pc = "top" /\ calls > 0 => maxIters > iter
        /\ outcome = "iterations" => calls = 0
    BY DEF WarnedInv, RoomLeft
  <2>2. pc # "done" => outcome = "none"
    BY DEF WarnedInv, OpenTillDone
  <2>3. CASE Top
    <3>1. CASE Exceeded = "none"
      BY <2>2, <2>3, <3>1 DEF Top, Goto
    <3>2. CASE Exceeded # "none"
      <4>1. pc = "top" /\ pc' = "done" /\ outcome' = Exceeded /\ calls' = calls
        BY <2>3, <3>2 DEF Top, Finish, ghosts
      <4>2. Exceeded = "iterations" => iter >= maxIters
        BY DEF Exceeded
      <4> QED
        BY <1>2, <2>1, <4>1, <4>2
    <3> QED
      BY <3>1, <3>2
  <2>4. CASE EndTurn
    <3>1. PICK isFree \in BOOLEAN : Account(isFree)
      BY <2>4, Zenon DEF EndTurn
    <3>2. iter' \in {iter, iter + 1}
      BY <3>1 DEF Account
    <3>3. pc = "after" /\ pc' = "top" /\ UNCHANGED <<outcome, maxIters>>
      BY <2>4 DEF EndTurn, Goto, knobs
    <3> QED
      BY <1>2, <2>1, <2>2, <3>2, <3>3
  <2>5. CASE ApplySlash
    <3>1. pc = "slash" /\ pc' = "slash" /\ UNCHANGED outcome
      BY <2>5 DEF ApplySlash
    <3> QED
      BY <2>2, <3>1
  <2>6. CASE Call
    <3>1. pc = "call" /\ pc' = "tools" /\ UNCHANGED <<outcome, iter, maxIters>>
      BY <2>6 DEF Call, Goto, knobs
    <3> QED
      BY <2>1, <2>2, <3>1
  <2>7. CASE ~Top /\ ~EndTurn /\ ~ApplySlash /\ ~Call
    <3>1. UNCHANGED <<iter, maxIters, calls>>
      BY <1>6, <2>7 DEF Next, LoopStep, vars, Tick, OperatorAborts, CallHangs, Drain, NoSlash,
         MirrorAndReadSpec, Fails, ToolCall, ToolsDone, NaturalStop, PlanSubmitted,
         verify, JustWork, Stuck, ghosts, budget, knobs
    <3>2. \/ UNCHANGED <<pc, outcome>>
          \/ pc' = "done" /\ outcome' # "iterations"
          \/ /\ UNCHANGED outcome /\ pc # "done"
             /\ pc' \in {"mirror", "call", "tools", "turn", "after"}
                  => pc \in {"mirror", "call", "tools", "turn", "after"}
             /\ pc' # "top"
      <4>1. CASE Drain \/ NoSlash \/ MirrorAndReadSpec \/ ToolCall \/ ToolsDone \/ JustWork
        BY <4>1 DEF Drain, NoSlash, MirrorAndReadSpec, ToolCall, ToolsDone, JustWork, Goto
      <4>2. CASE Fails \/ NaturalStop \/ PlanSubmitted \/ Stuck
        BY <4>2 DEF Fails, NaturalStop, PlanSubmitted, Stuck, Goto, Finish
      <4>3. CASE verify
        BY <4>3 DEF verify, Goto, Finish
      <4>4. CASE Tick \/ OperatorAborts \/ CallHangs \/ UNCHANGED vars
        BY <4>4 DEF Tick, OperatorAborts, CallHangs, vars
      <4> QED
        BY <1>6, <2>7, <4>1, <4>2, <4>3, <4>4 DEF Next, LoopStep
    <3> QED
      BY <2>1, <2>2, <3>1, <3>2
  <2> QED
    BY <2>3, <2>4, <2>5, <2>6, <2>7
<1> QED
  BY <1>1, <1>3, <1>4, <1>5, <1>6 DEF WarnedInv

\* For any limits, thresholds and slash commands: three budget-low messages at
\* the most, and one about the iterations before an invocation that asked the
\* model dies of them (driver.rs, budget_low_notice and its latches).
THEOREM WarnsInTime == Spec => []WarnedOncePerKind
<1>1. Init => WarnedInv
  <2> SUFFICES ASSUME Init PROVE WarnedInv
    OBVIOUS
  <2>1. pc = "top" /\ outcome = "none" /\ warned = {} /\ notices = 0 /\ calls = 0
    BY Switches DEF Init
  <2> QED
    BY <2>1, InitTypeOK DEF WarnedInv, OpenTillDone, NoticesLatch, RoomLeft, Latched
<1>2. WarnedInv => WarnedOncePerKind
  <2> SUFFICES ASSUME WarnedInv PROVE WarnedOncePerKind
    OBVIOUS
  <2>1. \A k \in Kinds : Latched(k) \in 0..1
    BY DEF Latched
  <2>2. notices \in Nat /\ calls \in Nat
    BY DEF WarnedInv, TypeOK
  <2> QED
    BY <2>1, <2>2 DEF WarnedInv, NoticesLatch, RoomLeft, WarnedOncePerKind, Kinds
<1> QED
  BY <1>1, <1>2, WarnedStep, PTL DEF Spec

-----------------------------------------------------------------------------
(* No images after the endpoint has refused them: the turn under way at the *)
(* refusal begins without one, and Wrapped lets none in afterwards.         *)

TurnHasNone == degraded => ~turn.image

ImagesInv == TypeOK /\ TurnHasNone

LEMMA ImagesStep == ImagesInv /\ [Next]_vars => ImagesInv'
<1> SUFFICES ASSUME ImagesInv, [Next]_vars PROVE ImagesInv'
  OBVIOUS
<1>1. TypeOK /\ TypeOK' /\ turn \in Turns
  BY NextTypeOK DEF ImagesInv, TypeOK, Turns
<1>2. CASE Call
  <2>1. PICK n \in 0..MaxCalls : turn' = [NoTurn EXCEPT !.todo = n, !.count = n]
    BY <1>2 DEF Call
  <2>2. ~turn'.image
    BY <2>1 DEF NoTurn
  <2> QED
    BY <1>1, <2>2 DEF ImagesInv, TurnHasNone
<1>3. CASE EndTurn
  <2>1. ~turn'.image
    BY <1>3 DEF EndTurn, NoTurn
  <2> QED
    BY <1>1, <2>1 DEF ImagesInv, TurnHasNone
<1>4. CASE ToolCall
  <2>1. UNCHANGED degraded /\ turn.todo > 0
    BY <1>4 DEF ToolCall, ctx
  <2>2. \A c \in Calls : \A r : Taken(c, r).image = turn.image
    BY <1>1 DEF Taken, Gather, Turns
  <2>3. degraded /\ ~turn.image => ~turn'.image
    <3> SUFFICES ASSUME degraded, ~turn.image PROVE ~turn'.image
      OBVIOUS
    <3>1. PICK c \in Calls : NotRun(c) \/ dispatch(c)
      BY <1>4 DEF ToolCall
    <3>2. CASE NotRun(c)
      BY <2>2, <3>2 DEF NotRun
    <3>3. CASE dispatch(c)
      <4>1. PICK r \in Errors \cup {"ok"}, shows \in BOOLEAN, edits \in BOOLEAN :
              turn' = [Taken(c, r) EXCEPT
                         !.claimed = @ \/ (c \in {"goal_complete", "submit_plan"} /\ r = "ok"),
                         !.edited = @ \/ edits,
                         !.image = @ \/ Wrapped(shows)]
        BY <3>3 DEF dispatch
      <4>2. ~Wrapped(shows)
        BY DEF Wrapped
      <4>3. Taken(c, r) \in Turns
        BY <1>1, <2>1, TakenType
      <4>4. turn'.image = (Taken(c, r).image \/ Wrapped(shows))
        BY <4>1, <4>3 DEF Turns
      <4> QED
        BY <2>2, <4>2, <4>4
    <3> QED
      BY <3>1, <3>2, <3>3
  <2> QED
    BY <1>1, <2>1, <2>3 DEF ImagesInv, TurnHasNone
<1>5. CASE verify
  <2>1. UNCHANGED degraded /\ turn'.image = turn.image
    BY <1>1, <1>5 DEF verify, ctx, Turns
  <2> QED
    BY <1>1, <2>1 DEF ImagesInv, TurnHasNone
<1>6. CASE ~Call /\ ~EndTurn /\ ~ToolCall /\ ~verify
  <2>1. UNCHANGED <<degraded, turn>>
    BY <1>6 DEF Next, LoopStep, vars, Tick, OperatorAborts, CallHangs, Top, Drain, ApplySlash, NoSlash,
         budget_low_notice, MirrorAndReadSpec, Fails, ToolsDone, NaturalStop,
         PlanSubmitted, JustWork, Stuck, ctx
  <2> QED
    BY <1>1, <2>1 DEF ImagesInv, TurnHasNone
<1> QED
  BY <1>2, <1>3, <1>4, <1>5, <1>6

LEMMA NoneComesBack ==
  ASSUME ImagesInv, [Next]_vars, degraded, ~image, mirror # "image"
  PROVE  ~image'
<1>1. ~turn.image
  BY DEF ImagesInv, TurnHasNone
<1>2. CASE Call
  BY <1>2 DEF Call
<1>3. CASE Stuck
  BY <1>1, <1>3, Zenon DEF Stuck
<1>4. CASE EndTurn
  <2>1. PICK accepted, kept, collapsed \in BOOLEAN :
          image' = (~collapsed /\ ((IF accepted THEN kept /\ mirror = "image" ELSE image)
                                      \/ turn.image))
    BY <1>4 DEF EndTurn
  <2> QED
    BY <1>1, <2>1
<1>5. CASE ~Call /\ ~Stuck /\ ~EndTurn
  <2>1. UNCHANGED image
    BY <1>5 DEF Next, LoopStep, vars, Tick, OperatorAborts, CallHangs, Top, Drain, ApplySlash, NoSlash,
         budget_low_notice, MirrorAndReadSpec, Fails, ToolCall, ToolsDone, NaturalStop,
         PlanSubmitted, verify, JustWork, ctx
  <2> QED
    BY <2>1
<1> QED
  BY <1>2, <1>3, <1>4, <1>5

\* For any model, tools and LIVE_CTX.md: once the endpoint has refused images,
\* no step puts one back into the messages, unless the mirror of that very
\* iteration still has it (driver.rs, images_degraded).
THEOREM RefusedImagesStayOut == Spec => ImagesStayOut
<1>1. Init => ImagesInv
  <2> SUFFICES ASSUME Init PROVE ImagesInv
    OBVIOUS
  <2>1. ~turn.image
    BY DEF Init, NoTurn
  <2> QED
    BY <2>1, InitTypeOK DEF ImagesInv, TurnHasNone
<1>2. ImagesInv /\ [Next]_vars =>
        [degraded /\ ~image /\ mirror # "image" => ~image']_vars
  BY NoneComesBack
<1> QED
  BY <1>1, <1>2, ImagesStep, PTL DEF Spec, ImagesStayOut
=============================================================================
