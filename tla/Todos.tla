-------------------------------- MODULE Todos -------------------------------
(***************************************************************************)
(* src/src/todos.rs over src/src/fsatomic.rs: the model's step list in     *)
(* .chug/todos.json.  Each call loads the whole list, changes its copy and *)
(* puts it in the place of the file: a temporary sibling, then a rename.   *)
(* Nothing is locked, and nothing of the list stays in the process, so a   *)
(* session goes on from what the one before it left, however that ended.   *)
(*                                                                         *)
(* A title stands for the call that set it.  A temporary file that a dead  *)
(* process leaves is never read, and is not modelled.                      *)
(***************************************************************************)
EXTENDS Naturals, Sequences

CONSTANTS MaxCalls,   \* bound: calls that change the list
          MaxOpened   \* bound: runs and chats

ASSUME TodosAssumption == {MaxCalls, MaxOpened} \subseteq Nat

Pending == "pending"
Done    == "done"       \* in_progress is set and lost like it

VARIABLES list,     \* the file: a sequence of todos, empty while it is absent
          busy,     \* the sessions, and where each is in its call
          copy,     \* the list each is about to save
          place,    \* where in that list the todo of its call stands
          told,     \* history: what the calls that were saved say of each id
          crossed,  \* history: a call loaded the list before another had saved it
          spent     \* calls and sessions so far

todosVars == <<list, busy, copy, place, told, crossed, spent>>

Callers  == {"run", "chat"}
Calling  == {"changed", "written"}
Stages   == {"closed", "idle"} \cup Calling
Ids      == 1..MaxCalls
Todo     == [id : Ids, title : 0..MaxCalls, status : {Pending, Done}]

TodosTypeOK ==
    /\ list \in Seq(Todo)
    /\ busy \in [Callers -> Stages] /\ copy \in [Callers -> Seq(Todo)]
    /\ place \in [Callers -> Ids \cup {0}]
    /\ DOMAIN told \subseteq Ids /\ \A i \in DOMAIN told : told[i] \in Todo
    /\ crossed \in BOOLEAN
    /\ spent \in [calls : 0..MaxCalls, opened : 0..MaxOpened]

TodosInit ==
    /\ list = <<>> /\ busy = [s \in Callers |-> "closed"]
    /\ copy = [s \in Callers |-> <<>>] /\ place = [s \in Callers |-> 0]
    /\ told = <<>> /\ crossed = FALSE
    /\ spent = [calls |-> 0, opened |-> 0]

-----------------------------------------------------------------------------
(* Runs and chats.                                                         *)

OpenSession(s) ==
    /\ busy[s] = "closed" /\ spent.opened < MaxOpened
    /\ busy' = [busy EXCEPT ![s] = "idle"]
    /\ spent' = [spent EXCEPT !.opened = @ + 1]
    /\ UNCHANGED <<list, copy, place, told, crossed>>

\* It ends, or it dies wherever it is.
CloseSession(s) ==
    /\ busy[s] # "closed"
    /\ busy' = [busy EXCEPT ![s] = "closed"]
    /\ copy' = [copy EXCEPT ![s] = <<>>] /\ place' = [place EXCEPT ![s] = 0]
    /\ UNCHANGED <<list, told, crossed, spent>>

-----------------------------------------------------------------------------
(* A call.  The validation of its input and a file that cannot be read     *)
(* leave everything as it is.                                              *)

\* load() and the change of the copy: changed is the todo, i its place.
Change(s, i, changed) ==
    /\ copy' = [copy EXCEPT ![s] = IF i > Len(list) THEN Append(list, changed)
                                   ELSE [list EXCEPT ![i] = changed]]
    /\ place' = [place EXCEPT ![s] = i]
    /\ busy' = [busy EXCEPT ![s] = "changed"]
    /\ spent' = [spent EXCEPT !.calls = @ + 1]
    /\ crossed' = (crossed \/ \E t \in Callers : busy[t] \in Calling)
    /\ UNCHANGED <<list, told>>

CanCall(s) == busy[s] = "idle" /\ spent.calls < MaxCalls

\* t<length+1>: there is no removal, so the id is new.
NextId == Len(list) + 1

todo_add(s) ==
    /\ CanCall(s)
    /\ Change(s, Len(list) + 1,
              [id |-> NextId, title |-> spent.calls + 1, status |-> Pending])

\* The first with the id; a new status, a new title or both.
todo_update(s) ==
    /\ CanCall(s)
    /\ \E i \in 1..Len(list) :
          /\ \A j \in 1..(i - 1) : list[j].id # list[i].id
          /\ \E title \in {list[i].title, spent.calls + 1}, status \in {Pending, Done} :
                Change(s, i, [list[i] EXCEPT !.title = title, !.status = status])

\* Slip: the file itself is opened, hence truncated; an empty file loads as
\* an empty list.
WhileWritten_InPlace == <<>>

\* What the name of the store shows while the new list is being written.
WhileWritten == list

\* write_atomic: the temporary file is written and synced ...
Write(s) ==
    /\ busy[s] = "changed" /\ busy' = [busy EXCEPT ![s] = "written"]
    /\ list' = WhileWritten
    /\ UNCHANGED <<copy, place, told, crossed, spent>>

\* ... and renamed; the answer names the todo as the copy has it.
Rename(s) ==
    /\ busy[s] = "written" /\ busy' = [busy EXCEPT ![s] = "idle"]
    /\ list' = copy[s]
    /\ LET todo == copy[s][place[s]]
       IN  told' = [i \in DOMAIN told \cup {todo.id} |->
                      IF i = todo.id THEN todo ELSE told[i]]
    /\ copy' = [copy EXCEPT ![s] = <<>>] /\ place' = [place EXCEPT ![s] = 0]
    /\ UNCHANGED <<crossed, spent>>

\* The directory, the temporary file or the rename fails: a tool error.
SaveFails(s) ==
    /\ busy[s] \in Calling /\ busy' = [busy EXCEPT ![s] = "idle"]
    /\ copy' = [copy EXCEPT ![s] = <<>>] /\ place' = [place EXCEPT ![s] = 0]
    /\ UNCHANGED <<list, told, crossed, spent>>

TodosNext == \E s \in Callers :
    \/ OpenSession(s) \/ CloseSession(s) \/ todo_add(s) \/ todo_update(s)
    \/ Write(s) \/ Rename(s) \/ SaveFails(s)

TodosSpec == TodosInit /\ [][TodosNext]_todosVars

-----------------------------------------------------------------------------
(* Properties                                                              *)

\* An id leads to one todo, and the store is what the calls reported, no more
\* and no less: whatever runs and chats begin, end, die or fail to save, as
\* long as no two calls cross.  (Two that do lose an update, and may both
\* report the same id: there is no lock.)
TodosKept ==
    /\ \A i, j \in 1..Len(list) : list[i].id = list[j].id => i = j
    /\ ~crossed => {list[i] : i \in 1..Len(list)} = {told[i] : i \in DOMAIN told}
=============================================================================
