----------------------------- MODULE Operations ------------------------------
(***************************************************************************)
(* Who starts and ends runs: the processes that launch, cancel and await   *)
(* detached runs (Control), and the supervisor that starts one cycle after *)
(* the other (Loopd); and the judge daemon that the runs of a host share   *)
(* (JudgeDaemon).  None looks at another's files; what it sees of another  *)
(* (a lock that is held, a foreign zombie, a run that asks) is a choice in *)
(* its module.  So a behaviour is about one of them.                       *)
(***************************************************************************)
EXTENDS Control, Loopd, JudgeDaemon

VARIABLE part     \* the one this behaviour is about

vars == <<part, controlVars, loopdVars, judgeVars>>

TypeOK == ControlTypeOK /\ LoopdTypeOK /\ JudgeTypeOK

Init == /\ part \in {"control", "loopd", "judge"}
        /\ ControlInit /\ LoopdInit /\ JudgeInit
        /\ part # "control" => observer = "server"

Next ==
    /\ UNCHANGED part
    /\ \/ part = "control" /\ ControlNext /\ UNCHANGED <<loopdVars, judgeVars>>
       \/ part = "loopd"   /\ LoopdNext   /\ UNCHANGED <<controlVars, judgeVars>>
       \/ part = "judge"   /\ JudgeNext   /\ UNCHANGED <<controlVars, loopdVars>>

\* Those at rest have nothing their fairness could ask for.
Spec == Init /\ [][Next]_vars /\ ControlFair /\ LoopdFair /\ JudgeFair
=============================================================================
