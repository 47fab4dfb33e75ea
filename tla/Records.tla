------------------------------- MODULE Records ------------------------------
(***************************************************************************)
(* What a directory keeps of its sessions: the transcript as sessions      *)
(* write, resume and compact it (Session), the cuts that compact it        *)
(* (Curation), the slots that `chug fork' copies transcript and ledger to  *)
(* and from (Fork), and the list of steps (Todos).  To Fork a session is   *)
(* what it archives and appends; to Session what a restore leaves is a     *)
(* transcript it finds, and a cut any that Curation's gates would let      *)
(* through; the list shares nothing with the others.  So a behaviour is    *)
(* about one of them.                                                      *)
(***************************************************************************)
EXTENDS Session, Fork, Curation, Todos

VARIABLE subject     \* the one this behaviour is about

recordsVars == <<subject, vars, forkVars, curationVars, todosVars>>

RecordsInit ==
    /\ subject \in {"session", "fork", "curation", "todos"}
    /\ Init /\ ForkInit /\ CurationInit /\ TodosInit
    /\ subject # "session" => world = CHOOSE w \in Worlds : TRUE
    /\ subject # "curation" => messages[1].size = Shortest

RecordsNext ==
    /\ UNCHANGED subject
    /\ \/ subject = "session"  /\ Next
          /\ UNCHANGED <<forkVars, curationVars, todosVars>>
       \/ subject = "fork"     /\ ForkNext
          /\ UNCHANGED <<vars, curationVars, todosVars>>
       \/ subject = "curation" /\ CurationNext
          /\ UNCHANGED <<vars, forkVars, todosVars>>
       \/ subject = "todos"    /\ TodosNext
          /\ UNCHANGED <<vars, forkVars, curationVars>>

RecordsSpec == RecordsInit /\ [][RecordsNext]_recordsVars
=============================================================================
