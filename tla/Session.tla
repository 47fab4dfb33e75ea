------------------------------ MODULE Session -------------------------------
(***************************************************************************)
(* The conversation of a session: the messages in memory and their copy in *)
(* .chug/transcript.jsonl, from the start of a process (fresh or --resume) *)
(* through its turns to its end or its death.  Sources: src/src/           *)
(* transcript.rs, driver.rs (run_loop, run_plan_loop, resume_messages,     *)
(* repair_interrupted_tools, the appends of drive_loop), chat.rs, archive, *)
(* fsatomic, and the rewrites of live_ctx.rs and trim.rs.                  *)
(*                                                                         *)
(* "run" is the process that holds the driver lock (module DriverLock: at  *)
(* most one); "chat" is a chat session, which takes no lock.               *)
(***************************************************************************)
EXTENDS Messages, FiniteSets

CONSTANTS Worlds,       \* the circumstances to look at, of which one holds
          Bodies,       \* what an edit may turn the body of a message into
          Keep,         \* KEEP_LAST_MESSAGES
          MaxStarts,    \* bound: processes started
          MaxIds,       \* bound: tool batches
          MaxLines      \* bound: messages in the file and in memory

Procs == {"run", "chat"}

VARIABLES world,     \* one of Worlds
          file,      \* the lines of the transcript
          nl,        \* it ends with a newline (or is empty)
          archived,  \* the messages in transcript-<timestamp>.jsonl files
          starts,    \* processes started so far
          ids,       \* tool batches asked for so far
          proc       \* the processes

vars == <<world, file, nl, archived, starts, ids, proc>>

Sessions == 0..MaxStarts
Msgs     == Message(Sessions, 1..MaxIds)   \* 0: an earlier session

\* A line that is no JSON, and one that ends within a character, which makes
\* the whole file unreadable.
Garbage == [kind |-> "garbage", id |-> 0, by |-> 0, image |-> FALSE]
Cut     == [kind |-> "cut",     id |-> 0, by |-> 0, image |-> FALSE]

\* procs: who is started; deaths: where deaths may fall ("step", "write" in the
\* middle of a line, "char" in the middle of a character, "newline" between line
\* and newline); images: tools may return some; left: the transcripts that
\* earlier sessions may have left; rotateFails: archiving the old one may fail;
\* starts, lines: bounds.
ASSUME SessionAssumption ==
    /\ {Keep, MaxStarts, MaxIds, MaxLines} \subseteq Nat /\ Keep # 0 /\ Bodies \subseteq Msgs
    /\ \A w \in Worlds :
          /\ w.procs \subseteq Procs /\ w.deaths \subseteq {"step", "write", "char", "newline"}
          /\ w.images \in BOOLEAN
          /\ w.left # {} /\ w.left \subseteq Seq(Msgs) /\ w.rotateFails \in BOOLEAN
          /\ w.starts \in 0..MaxStarts /\ w.lines \in 0..MaxLines

\* pc: where the process is; mem: messages; reply: the assistant message that
\* is not in mem yet; push, then: what the append under way adds to mem, and
\* where it leads; mirror: the messages in LIVE_CTX.md; degraded: the endpoint
\* has refused images; fresh: not resumed.
Off == [pc |-> "off", mem |-> <<>>, reply |-> <<>>, push |-> <<>>, then |-> "off",
        mirror |-> <<>>, degraded |-> FALSE, by |-> 0, fresh |-> FALSE]

Places == {"off", "load", "cut", "repair", "trim0", "first", "idle", "top",
           "call", "tools", "ended", "edit", "trim", "newline"}

TypeOK ==
    /\ file \in Seq(Msgs \cup {Garbage, Cut}) /\ Len(file) <= MaxLines
    /\ nl \in BOOLEAN /\ (file = <<>> => nl)
    /\ archived \subseteq Msgs
    /\ starts \in 0..MaxStarts /\ ids \in 0..MaxIds
    /\ \A p \in Procs :
         /\ proc[p].pc \in Places /\ proc[p].then \in Places \ {"newline"}
         /\ proc[p].mem \in Seq(Msgs) /\ proc[p].push \in Seq(Msgs)
         /\ proc[p].reply \in Seq(Msgs) /\ Len(proc[p].reply) <= 1
         /\ proc[p].mirror \in Seq(Msgs) /\ proc[p].by \in Sessions
         /\ proc[p].degraded \in BOOLEAN /\ proc[p].fresh \in BOOLEAN

Init ==
    /\ world \in Worlds /\ file \in world.left /\ nl = TRUE /\ archived = {}
    /\ starts = 0 /\ ids = Cardinality({i \in 1..Len(file) : Asks(file[i])})
    /\ proc = [p \in Procs |-> Off]

At(p, l)   == proc[p].pc = l
Goto(p, l) == proc' = [proc EXCEPT ![p].pc = l]

MessagesOf(lines) == {lines[i] : i \in 1..Len(lines)} \ {Garbage, Cut}

-----------------------------------------------------------------------------
(* The file.                                                               *)

\* What one write of a line's text leaves: it joins a line without newline.
Written(line) == IF nl THEN Append(file, line)
                 ELSE [file EXCEPT ![Len(file)] = IF @ = Cut \/ line = Cut THEN Cut ELSE Garbage]

\* transcript::append, first write: the line.  `writeln!' writes the newline
\* separately.  (A call of drive_loop, which chat makes for every objective,
\* starts with no refusal.)
AppendLine(p, m, push, next) ==
    /\ Len(file) < world.lines /\ Len(proc[p].mem) + Len(push) <= world.lines
    /\ file' = Written(m) /\ nl' = FALSE
    /\ proc' = [proc EXCEPT ![p].pc = "newline", ![p].push = push, ![p].then = next,
                            ![p].degraded = @ /\ ~At(p, "idle")]
    /\ UNCHANGED <<archived, starts>>

\* ... and second write.  Then the loop pushes the message.
Newline(p) ==
    /\ At(p, "newline")
    /\ nl' = TRUE
    /\ proc' = [proc EXCEPT ![p] =
                  IF proc[p].then = "off" THEN Off
                  ELSE [proc[p] EXCEPT !.pc = proc[p].then, !.push = <<>>,
                                       !.then = "off",
                                       !.reply = IF proc[p].then = "tools" THEN @ ELSE <<>>,
                                       !.mirror = IF proc[p].then \in {"tools", "edit"}
                                                  THEN @ ELSE <<>>,
                                       !.mem = @ \o proc[p].push]]
    /\ UNCHANGED <<file, archived, starts, ids>>

\* Slip (before T136): the file is truncated first, a death in between
\* leaves nothing.
Rewrite_InPlace(p, ms, next) ==
    /\ nl' = TRUE
    /\ \/ file' = ms /\ proc' = [proc EXCEPT ![p].pc = next, ![p].mem = ms,
                                               ![p].mirror = <<>>]
       \/ file' = <<>> /\ proc' = [proc EXCEPT ![p] = Off]
    /\ UNCHANGED <<archived, starts, ids>>

\* Slip: only the memory is compacted.
Rewrite_Forgotten(p, ms, next) ==
    /\ proc' = [proc EXCEPT ![p].pc = next, ![p].mem = ms, ![p].mirror = <<>>]
    /\ UNCHANGED <<file, nl, archived, starts, ids>>

\* transcript::rewrite is a rename: all or nothing.
Rewrite(p, ms, next) ==
    /\ file' = ms /\ nl' = TRUE
    /\ proc' = [proc EXCEPT ![p].pc = next, ![p].mem = ms, ![p].mirror = <<>>]
    /\ UNCHANGED <<archived, starts, ids>>

\* load_with_torn: a malformed last line is torn, any other is corruption, and
\* so is a file that is no UTF-8.
EndsIn(l) == file # <<>> /\ file[Len(file)] = l
Torn      == EndsIn(Garbage)
Corrupt   == \E i \in 1..Len(file) :
                 file[i] = Cut \/ (file[i] = Garbage /\ i < Len(file))

\* The whole lines.
Loaded == IF Torn \/ EndsIn(Cut) THEN SubSeq(file, 1, Len(file) - 1) ELSE file

-----------------------------------------------------------------------------
(* Start.                                                                  *)

\* Best effort: where it fails the run goes on and appends.
rotate_fresh ==
    \/ file' = <<>> /\ nl' = TRUE /\ archived' = archived \cup MessagesOf(file)
    \/ world.rotateFails /\ UNCHANGED <<file, nl, archived>>

\* A fresh run or plan session rotates; a fresh chat starts with no messages
\* in memory and appends to the file as it finds it.
StartFresh(p) ==
    /\ At(p, "off") /\ starts < world.starts
    /\ starts' = starts + 1
    /\ IF p = "run" THEN rotate_fresh ELSE UNCHANGED <<file, nl, archived>>
    /\ proc' = [proc EXCEPT ![p] =
                  [Off EXCEPT !.pc = IF p = "run" THEN "first" ELSE "idle",
                              !.by = starts + 1, !.fresh = TRUE]]
    /\ UNCHANGED ids

StartResume(p) ==
    /\ At(p, "off") /\ starts < world.starts
    /\ starts' = starts + 1
    /\ proc' = [proc EXCEPT ![p] = [Off EXCEPT !.pc = "load", !.by = starts + 1]]
    /\ UNCHANGED <<file, nl, archived, ids>>

\* resume_messages, first part.  The session goes on under its old number.
Load(p) ==
    /\ At(p, "load")
    /\ proc' = [proc EXCEPT ![p] =
                  IF Corrupt THEN Off
                  ELSE [@ EXCEPT !.mem = Loaded, !.pc = IF Torn THEN "cut" ELSE "repair",
                                 !.by = IF Loaded = <<>> THEN proc[p].by
                                        ELSE Loaded[Len(Loaded)].by]]
    /\ UNCHANGED <<file, nl, archived, starts, ids>>

\* The torn bytes are physically dropped.
CutTorn(p) == At(p, "cut") /\ Rewrite(p, proc[p].mem, "repair")

\* The ids of the last assistant message that asks for tools, as far as no
\* later message answers them.
Unanswered(ms) ==
    {ms[i].id : i \in {i \in 1..Len(ms) :
        /\ Asks(ms[i])
        /\ \A j \in i + 1 .. Len(ms) : ~Asks(ms[j]) /\ ~Answers(ms[j], ms[i])}}

\* Slip (before T136): the resumed history is sent as it is.
repair_interrupted_tools_None(p) ==
    /\ At(p, "repair") /\ Goto(p, "trim0")
    /\ UNCHANGED <<file, nl, archived, starts, ids>>

repair_interrupted_tools(p) ==
    /\ At(p, "repair")
    /\ \/ /\ Unanswered(proc[p].mem) = {}
          /\ Goto(p, "trim0")
          /\ UNCHANGED <<file, nl, archived, starts, ids>>
       \/ \E id \in Unanswered(proc[p].mem) :
            /\ LET m == Result(proc[p].by, id) IN AppendLine(p, m, <<m>>, "trim0")
            /\ UNCHANGED ids

-----------------------------------------------------------------------------
(* Compaction.                                                             *)

\* Slip: segments end anywhere.
PairingSafe_Ignored(ms, gone, heads) == TRUE

\* trim.rs: no segment starts with a result or is followed by one.
PairingSafe(ms, gone, heads) ==
    \A i \in 2..Len(ms) : i \in heads \/ (i \notin gone /\ i - 1 \in gone) => ms[i].kind # "result"

\* transcript_trim, if the messages are too many: segments of the window, which
\* leaves out the first and the last Keep messages, give way to a marker each.
Trims(p, next) ==
    LET ms == proc[p].mem
    IN  \E gone \in SUBSET (2..Len(ms) - Keep) : \E heads \in SUBSET gone :
            /\ gone # {} /\ Runs(gone, heads) /\ PairingSafe(ms, gone, heads)
            /\ \A h \in heads : \E k \in gone :
                   ms[k].kind # "marker" /\ h <= k /\ ~\E i \in heads : h < i /\ i <= k
            /\ Rewrite(p, Spliced(ms, gone, heads, Marker(proc[p].by)), next)

NoTrim(p, next) ==
    /\ proc' = [proc EXCEPT ![p].pc = next, ![p].mirror = <<>>]
    /\ UNCHANGED <<file, nl, archived, starts, ids>>

ResumeTrim(p) ==
    /\ At(p, "trim0")
    /\ LET next == IF p = "chat" THEN "idle"
                   ELSE IF proc[p].mem = <<>> THEN "first" ELSE "top"
       IN  Trims(p, next) \/ NoTrim(p, next)

pinned(ms, i) == i = 1 \/ ms[i].kind = "marker"

\* The messages in memory as an edit of the mirror leaves those that stay: as
\* they were mirrored, or with another body of the same role.
Edited(q, turned, body) ==
    [i \in 1..Len(q.mem) |-> IF i \in turned THEN [body[i] EXCEPT !.by = q.mirror[i].by]
                             ELSE IF i <= Len(q.mirror) THEN q.mirror[i] ELSE q.mem[i]]

EditPairs(candidate) == pairs_intact(candidate)

\* check_after_turn: the model deleted mirrored turns or edited their bodies,
\* but none of those that are pinned, and what is left pairs with this turn's
\* messages.  A rejected edit is answered by a note.
CtxEdit(p) ==
    /\ At(p, "edit")
    /\ \/ NoTrim(p, "trim")
       \/ LET q == proc[p]
              mirrored == 1..Len(q.mirror)
              free     == {i \in mirrored : ~pinned(q.mem, i)}
          IN  /\ \A i \in mirrored \ free : q.mirror[i] = q.mem[i]
              /\ \E gone \in SUBSET free : \E turned \in SUBSET (free \ gone) :
                 \E body \in [turned -> Bodies] :
                   LET kept      == Edited(q, turned, body)
                       candidate == Spliced(kept, gone, Firsts(gone), Marker(q.by))
                   IN  /\ gone \cup turned # {}
                       /\ \A i \in turned : Role(body[i]) = Role(q.mirror[i])
                       /\ EditPairs(candidate) /\ Rewrite(p, candidate, "trim")
       \/ /\ LET m == Text(proc[p].by) IN AppendLine(p, m, <<m>>, "trim")
          /\ UNCHANGED ids

LoopTrim(p) ==
    /\ At(p, "trim")
    /\ Trims(p, "top") \/ NoTrim(p, "top")

-----------------------------------------------------------------------------
(* The turns.                                                              *)

\* The goal, the user's objective, a note of the operator, a budget notice or
\* an advisory: a message of plain text.
Say(p, from, next) ==
    /\ At(p, from)
    /\ LET m == Text(proc[p].by) IN AppendLine(p, m, <<m>>, next)
    /\ UNCHANGED ids

First(p)     == p = "run" /\ Say(p, "first", "top")
Objective(p) == p = "chat" /\ Say(p, "idle", "top")
Note(p)      == Say(p, "top", "top")
Advise(p)    == Say(p, "ended", "idle")   \* the reply was cut short

Ask(p) ==
    /\ At(p, "top")
    /\ proc' = [proc EXCEPT ![p].pc = "call", ![p].mirror = proc[p].mem]
    /\ UNCHANGED <<file, nl, archived, starts, ids>>

\* A budget is exhausted, the operator aborts, the user leaves.
Stop(p) ==
    /\ At(p, "top") \/ At(p, "idle")
    /\ proc' = [proc EXCEPT ![p] = IF p = "chat" /\ At(p, "top")
                                   THEN [@ EXCEPT !.pc = "idle"] ELSE Off]
    /\ UNCHANGED <<file, nl, archived, starts, ids>>

\* The reply goes to the file before its tools run; into memory, later.
Reply(p) ==
    /\ At(p, "call") /\ pairs_intact(proc[p].mem)
    /\ \E id \in {0, ids + 1} :
         /\ id <= MaxIds
         /\ ids' = IF id = 0 THEN ids ELSE id
         /\ LET m == Asst(proc[p].by, id)
            IN  /\ Len(file) < world.lines
                /\ file' = Written(m) /\ nl' = FALSE
                /\ proc' = [proc EXCEPT ![p].pc = "newline", ![p].push = <<>>,
                                        ![p].then = "tools", ![p].reply = <<m>>]
                /\ UNCHANGED <<archived, starts>>

\* The endpoint refuses messages that do not pair, and the process ends.
Refused(p) ==
    /\ At(p, "call") /\ ~pairs_intact(proc[p].mem)
    /\ proc' = [proc EXCEPT ![p] = Off]
    /\ UNCHANGED <<file, nl, archived, starts, ids>>

\* The endpoint refuses images: they are taken out of the messages in memory,
\* and the request is made once more.  A second refusal ends the process.
ImagesRefused(p) ==
    /\ At(p, "call") /\ pairs_intact(proc[p].mem)
    /\ \E i \in 1..Len(proc[p].mem) : proc[p].mem[i].image
    /\ proc' = [proc EXCEPT ![p] = IF proc[p].degraded THEN Off
                                   ELSE [proc[p] EXCEPT !.mem = Bared(@), !.degraded = TRUE]]
    /\ UNCHANGED <<file, nl, archived, starts, ids>>

\* A reply without tools ends a chat turn ...
NaturalStop(p) ==
    /\ At(p, "tools") /\ p = "chat" /\ ~Asks(proc[p].reply[1])
    /\ Len(proc[p].mem) < world.lines
    /\ \E cut \in BOOLEAN :
         proc' = [proc EXCEPT ![p].pc = IF cut THEN "ended" ELSE "idle",
                              ![p].mem = @ \o proc[p].reply, ![p].reply = <<>>,
                              ![p].mirror = <<>>]
    /\ UNCHANGED <<file, nl, archived, starts, ids>>

\* ... and is kicked on in a run; the results of a batch become one message,
\* without images if they were refused.  The turn goes on, or an accepted goal
\* ends it.
TurnDone(p) ==
    /\ At(p, "tools")
    /\ LET asks == Asks(proc[p].reply[1])
       IN  /\ p = "run" \/ asks
           /\ \E next \in {"edit"} \cup (IF ~asks THEN {}
                                         ELSE IF p = "run" THEN {"off"} ELSE {"idle"}),
                 image \in {FALSE, asks /\ world.images /\ ~proc[p].degraded} :
                LET m == IF asks THEN [Result(proc[p].by, proc[p].reply[1].id) EXCEPT !.image = image]
                         ELSE Text(proc[p].by)
                IN  AppendLine(p, m, proc[p].reply \o <<m>>, next)
    /\ UNCHANGED ids

-----------------------------------------------------------------------------
(* Death: SIGKILL, a crash, a write or a request that fails.               *)

Dies(p) ==
    /\ ~At(p, "off") /\ (IF At(p, "newline") THEN "newline" ELSE "step") \in world.deaths
    /\ proc' = [proc EXCEPT ![p] = Off]
    /\ UNCHANGED <<file, nl, archived, starts, ids>>

\* In the middle of a line.
DiesWriting(p) ==
    /\ \/ At(p, "first") \/ At(p, "idle") \/ At(p, "top") \/ At(p, "tools")
       \/ At(p, "ended") \/ At(p, "edit")
       \/ At(p, "call") /\ pairs_intact(proc[p].mem)
       \/ At(p, "repair") /\ Unanswered(proc[p].mem) # {}
    /\ Len(file) < world.lines
    /\ \/ "write" \in world.deaths /\ file' = Written(Garbage)
       \/ "char" \in world.deaths /\ file' = Written(Cut)
    /\ nl' = FALSE
    /\ proc' = [proc EXCEPT ![p] = Off]
    /\ UNCHANGED <<archived, starts, ids>>

-----------------------------------------------------------------------------
Step(p) ==
    \/ StartFresh(p) \/ StartResume(p) \/ Load(p) \/ CutTorn(p)
    \/ repair_interrupted_tools(p) \/ ResumeTrim(p)
    \/ First(p) \/ Objective(p) \/ Note(p) \/ Advise(p) \/ Ask(p) \/ Stop(p)
    \/ Reply(p) \/ Refused(p) \/ ImagesRefused(p) \/ NaturalStop(p) \/ TurnDone(p)
    \/ CtxEdit(p) \/ LoopTrim(p) \/ Newline(p) \/ Dies(p) \/ DiesWriting(p)

Next == UNCHANGED world /\ \E p \in world.procs : Step(p)

Spec == Init /\ [][Next]_vars

-----------------------------------------------------------------------------
(* Properties.                                                             *)

\* One process at a time, and archives that succeed; and no death between a line
\* and its newline, after which the next append joins two messages in one line.
Lone  == (\A p, q \in world.procs : p = q) /\ ~world.rotateFails
Alone == Lone /\ "newline" \notin world.deaths

\* Every request but a last one is answered by the next message, and every
\* result answers the message before it: what repair_interrupted_tools needs.
Linked(ms) ==
    /\ \A i \in 1..Len(ms) - 1 : Asks(ms[i]) => Answers(ms[i + 1], ms[i])
    /\ \A i \in 1..Len(ms) : ms[i].kind = "result" => i > 1 /\ Answers(ms[i], ms[i - 1])

OneBy(ms, s) == \A i \in 1..Len(ms) : ms[i].by = s

\* The worlds the promises of a lone process are about: it is a run (a chat goes
\* on with whatever it finds), and finds what runs leave behind, or nothing.
RunsAlone ==
    \A w \in Worlds :
        (\A p, q \in w.procs : p = q) =>
            /\ w.procs \subseteq {"run"}
            /\ \A ms \in w.left : Linked(ms) /\ \E s \in Sessions : OneBy(ms, s)

FromScratch == \A w \in Worlds : (\A p, q \in w.procs : p = q) => w.left = {<<>>}

\* No request is made whose messages the endpoint must refuse: across any
\* sequence of crashes, resumes, edits and trims every tool_use is answered
\* by the next message and every tool_result has its tool_use before it
\* (T77, T136, T192).  Of a session that was not resumed this is so whatever
\* else happens to the transcript it shares, by crashes or by other sessions.
RequestsPaired ==
    \A p \in Procs : At(p, "call") /\ (Lone \/ proc[p].fresh) => pairs_intact(proc[p].mem)

\* The same of a resumed session of a run beside a chat (driver_lock.rs:54-56,
\* "shared `.chug/` appends interleave harmlessly").
AppendsInterleaveHarmlessly ==
    \A p \in Procs : At(p, "call") => pairs_intact(proc[p].mem)

\* Lines that hold the messages ms, or all but two neighbours that a death
\* between the first and its newline has joined into one line.
Merged(ms, i) == [k \in 1..Len(ms) - 1 |->
                    IF k < i THEN ms[k] ELSE IF k = i THEN Garbage ELSE ms[k + 1]]
Says(lines, ms) == \/ lines = ms
                   \/ /\ "newline" \in world.deaths
                      /\ \E i \in 1..Len(ms) - 1 : lines = Merged(ms, i)

\* However a process dies, its transcript can be resumed, for a crash tears only
\* the last line, unless it falls into a character or between a line and its
\* newline; at every boundary the file holds exactly what the session
\* remembers, so that a resume would go on with the very same context, or with
\* that and the images that were refused; and that context has no other
\* session's messages (T7, T77, T91, T136, T192).
ResumeDerivesMemory ==
    Lone => /\ Corrupt => \/ "newline" \in world.deaths
                          \/ EndsIn(Cut) /\ \A p \in Procs : At(p, "off") \/ At(p, "load")
            /\ \A p \in Procs : At(p, "top") =>
                  \/ Says(file, proc[p].mem)
                  \/ proc[p].degraded /\ Says(Bared(file), proc[p].mem)
            /\ \A p \in Procs : \A i, j \in 1..Len(proc[p].mem) :
                  proc[p].mem[i].by = proc[p].mem[j].by

\* A message that has left the transcript is archived, or was taken out by a
\* session that had it (but for its images) in its own context and goes on: no
\* death costs a message, however it falls into a rewrite (T7, T136).
NothingLost ==
    [][\A m \in MessagesOf(file) \ MessagesOf(file') :
          \/ ~Alone \/ m \in archived'
          \/ \E p \in Procs : /\ proc'[p].pc # "off"
                             /\ {m, Bare(m)} \cap MessagesOf(proc[p].mem) # {}]_vars

\* The transcript implements Journal: crashes, torn lines and their repair do
\* not show in the history.
J == INSTANCE Journal WITH log <- IF Alone THEN Loaded ELSE <<>>
KeepsJournal == J!Spec
=============================================================================
