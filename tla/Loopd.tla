------------------------------- MODULE Loopd --------------------------------
(***************************************************************************)
(* src/loopd.sh: the supervisor that runs `chug run' cycle after cycle.    *)
(* Supervisors exclude each other by a pidfile, which is read first and    *)
(* written later; `loopd.sh stop' leaves a STOP file; a script that has    *)
(* changed on disk is executed anew, under the same pid; three failures in *)
(* a row halt the loop.                                                    *)
(*                                                                         *)
(* Pids are not reused.  The judge daemon, the digests and the choice of   *)
(* the cycle's model are left out: they cannot keep a cycle from starting. *)
(***************************************************************************)
EXTENDS Naturals

CONSTANTS Supervisors,  \* the supervisors that may be started
          Nobody,       \* there is no pidfile
          MaxLoops,     \* bound: starts of a supervisor, or of its script
          MaxEdits      \* bound: changes of the script

ASSUME LoopdAssumption ==
    /\ Nobody \notin Supervisors /\ MaxLoops \in Nat /\ MaxEdits \in Nat

VARIABLES sup,      \* sup[s]: where s is, and how many failures in a row
          pidfile,  \* the supervisor that loopd.pid names
          STOP,     \* .chug/STOP-LOOP exists
          driver,   \* who holds the driver lock: a cycle of s, "other", Nobody
          script,   \* script[s]: s has the script that is on disk
          begun,    \* starts so far
          edits,    \* changes so far
          beside    \* history: two supervisors have been past the pidfile

loopdVars == <<sup, pidfile, STOP, driver, script, begun, edits, beside>>

\* Between its check of STOP and the next one a supervisor is within a cycle.
Within == {"probe", "build", "cycle", "sleep"}
Past   == {"write", "clear", "top", "body"} \cup Within
Off    == [pc |-> "off", fails |-> 0]

LoopdTypeOK ==
    /\ sup \in [Supervisors -> [pc : {"off", "check"} \cup Past, fails : 0..2]]
    /\ pidfile \in Supervisors \cup {Nobody}
    /\ driver \in Supervisors \cup {Nobody, "other"}
    /\ script \in [Supervisors -> BOOLEAN]
    /\ STOP \in BOOLEAN /\ beside \in BOOLEAN
    /\ begun \in 0..MaxLoops /\ edits \in 0..MaxEdits

LoopdInit ==
    /\ sup = [s \in Supervisors |-> Off] /\ pidfile = Nobody
    /\ STOP = FALSE /\ driver = Nobody
    /\ script = [s \in Supervisors |-> TRUE]
    /\ begun = 0 /\ edits = 0 /\ beside = FALSE

Stands(s, l)   == sup[s].pc = l
Goto(s, l) == sup' = [sup EXCEPT ![s].pc = l]

-----------------------------------------------------------------------------
(* Start, and the same again after exec.                                   *)

StartLoop(s) ==
    /\ Stands(s, "off") /\ begun < MaxLoops /\ begun' = begun + 1
    /\ sup' = [sup EXCEPT ![s] = [Off EXCEPT !.pc = "check"]]
    /\ script' = [script EXCEPT ![s] = TRUE]
    /\ UNCHANGED <<pidfile, STOP, driver, edits, beside>>

\* A pidfile that names a living supervisor, and another one, refuses.
CheckPidfile(s) ==
    /\ Stands(s, "check")
    /\ IF pidfile \notin {s, Nobody} /\ ~Stands(pidfile, "off")
       THEN sup' = [sup EXCEPT ![s] = Off] /\ UNCHANGED beside
       ELSE /\ Goto(s, "write")
            /\ beside' = (beside \/ \E o \in Supervisors \ {s} : sup[o].pc \in Past)
    /\ UNCHANGED <<pidfile, STOP, driver, script, begun, edits>>

WritePidfile(s) ==
    /\ Stands(s, "write") /\ pidfile' = s /\ Goto(s, "clear")
    /\ UNCHANGED <<STOP, driver, script, begun, edits, beside>>

\* A STOP that was there before is taken for an old one.
ClearStale(s) ==
    /\ Stands(s, "clear") /\ STOP' = FALSE /\ Goto(s, "top")
    /\ UNCHANGED <<pidfile, driver, script, begun, edits, beside>>

-----------------------------------------------------------------------------
(* The loop.                                                               *)

\* trap EXIT removes the pidfile, whoever it names.
Leaves(s) == sup' = [sup EXCEPT ![s] = Off] /\ pidfile' = Nobody

Top(s) ==
    /\ Stands(s, "top")
    /\ IF STOP THEN Leaves(s) ELSE Goto(s, "body") /\ UNCHANGED pidfile
    /\ UNCHANGED <<STOP, driver, script, begun, edits, beside>>

\* exec: no trap is run, and failures are forgotten.
Reexec(s) ==
    /\ sup' = [sup EXCEPT ![s] = [Off EXCEPT !.pc = "check"]]
    /\ script' = [script EXCEPT ![s] = TRUE] /\ begun < MaxLoops /\ begun' = begun + 1

Body(s) ==
    /\ Stands(s, "body")
    /\ IF script[s] THEN Goto(s, "probe") /\ UNCHANGED <<script, begun>> ELSE Reexec(s)
    /\ UNCHANGED <<pidfile, STOP, driver, edits, beside>>

\* A run of the loop's spec, or ps does not tell: wait, without a word about
\* failures.  Somebody else's run may be of another spec, which is not seen.
Probe(s) ==
    /\ Stands(s, "probe")
    /\ \/ Goto(s, "sleep")
       \/ driver \notin Supervisors /\ Goto(s, "build")
    /\ UNCHANGED <<pidfile, STOP, driver, script, begun, edits, beside>>

\* The third failure in a row is the end (and leaves a HALTED file, which only
\* `loopd.sh status' reads).
Fails(s) ==
    IF sup[s].fails < 2
    THEN sup' = [sup EXCEPT ![s].pc = "sleep", ![s].fails = @ + 1] /\ UNCHANGED <<pidfile>>
    ELSE Leaves(s)

\* Where the build fails nothing is launched.
Build(s) ==
    /\ Stands(s, "build")
    /\ \/ Goto(s, "cycle") /\ UNCHANGED <<pidfile>>
       \/ Fails(s)
    /\ UNCHANGED <<STOP, driver, script, begun, edits, beside>>

Succeeds(s) == sup' = [sup EXCEPT ![s].pc = "sleep", ![s].fails = 0]

\* The gate finds nothing to evaluate.
Skips(s) ==
    /\ Stands(s, "cycle") /\ driver # s /\ Succeeds(s)
    /\ UNCHANGED <<pidfile, STOP, driver, script, begun, edits, beside>>

\* chug run, which refuses where somebody has taken the lock since the probe.
LaunchCycle(s) ==
    /\ Stands(s, "cycle") /\ driver # s
    /\ IF driver = Nobody THEN driver' = s /\ UNCHANGED <<sup, pidfile>>
       ELSE Fails(s) /\ UNCHANGED driver
    /\ UNCHANGED <<STOP, script, begun, edits, beside>>

CycleEnds(s) ==
    /\ Stands(s, "cycle") /\ driver = s /\ driver' = Nobody
    /\ \/ Succeeds(s) /\ UNCHANGED <<pidfile>>
       \/ Fails(s)
    /\ UNCHANGED <<STOP, script, begun, edits, beside>>

\* Slip: a changed script is executed as soon as the cycle is over.
Wakes_Reexec(s) ==
    /\ Stands(s, "sleep")
    /\ IF script[s] THEN Goto(s, "top") /\ UNCHANGED <<script, begun>> ELSE Reexec(s)
    /\ UNCHANGED <<pidfile, STOP, driver, edits, beside>>

Wakes(s) ==
    /\ Stands(s, "sleep") /\ Goto(s, "top")
    /\ UNCHANGED <<pidfile, STOP, driver, script, begun, edits, beside>>

-----------------------------------------------------------------------------
(* From outside.                                                           *)

\* SIGKILL: nothing is removed, and its cycle goes on.
SupKilled(s) ==
    /\ ~Stands(s, "off") /\ sup' = [sup EXCEPT ![s] = Off]
    /\ driver' = IF driver = s THEN "other" ELSE driver
    /\ UNCHANGED <<pidfile, STOP, script, begun, edits, beside>>

StopCommand ==
    /\ ~STOP /\ STOP' = TRUE
    /\ UNCHANGED <<sup, pidfile, driver, script, begun, edits, beside>>

Edit ==
    /\ edits < MaxEdits /\ edits' = edits + 1 /\ script' = [s \in Supervisors |-> FALSE]
    /\ UNCHANGED <<sup, pidfile, STOP, driver, begun, beside>>

\* Somebody starts a run by hand; it, or an orphaned cycle, ends.
OtherRun ==
    /\ driver' = CASE driver = Nobody -> "other" [] driver = "other" -> Nobody
                   [] OTHER -> driver
    /\ UNCHANGED <<sup, pidfile, STOP, script, begun, edits, beside>>

-----------------------------------------------------------------------------
SupStep(s) ==
    \/ CheckPidfile(s) \/ WritePidfile(s) \/ ClearStale(s) \/ Top(s) \/ Body(s)
    \/ Probe(s) \/ Build(s) \/ Skips(s) \/ LaunchCycle(s) \/ CycleEnds(s) \/ Wakes(s)

LoopdNext == \/ \E s \in Supervisors : StartLoop(s) \/ SupStep(s) \/ SupKilled(s)
             \/ StopCommand \/ Edit \/ OtherRun

\* A cycle ends (its budgets: DriveLoop!Terminates), and so do builds and sleeps.
LoopdFair == \A s \in Supervisors : WF_loopdVars(SupStep(s))

LoopdSpec == LoopdInit /\ [][LoopdNext]_loopdVars /\ LoopdFair

-----------------------------------------------------------------------------
(* Properties.                                                             *)

\* "The operator's `loopd.sh stop' during a cycle still lands at the next
\* while-condition check, re-exec or not" (loopd.sh:1268): the supervisor ends,
\* also when the script changes meanwhile and others try to start.  Two
\* supervisors that read the pidfile before either wrote it are the exception:
\* the end of one lets a third one start, which clears the STOP of the other.
StopLands ==
    \A s \in Supervisors :
        (STOP /\ sup[s].pc \in Within) ~> (Stands(s, "off") \/ beside)
=============================================================================
