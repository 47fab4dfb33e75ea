----------------------------- MODULE SteerQueue -----------------------------
(***************************************************************************)
(* The steering queue .chug/steer.jsonl: `chug mcp-serve' appends an       *)
(* operator's note for a detached run (src/src/mcp_serve.rs, chug_steer),  *)
(* and every loop in the directory, the run's and a chat's, takes the      *)
(* whole queue at its next iteration boundary (src/src/driver.rs,          *)
(* drain_steering_queue) and says its notes in its own conversation.       *)
(*                                                                         *)
(* Nothing is locked.  A file is an entry of `files'; a descriptor goes on *)
(* writing to its file after the name has moved on or is gone.  `writeln!' *)
(* on a File writes a line piece by piece: here its first half, its second *)
(* half and the newline.                                                   *)
(***************************************************************************)
EXTENDS Integers, Sequences

CONSTANTS Notes,      \* the notes, one chug_steer call each
          Drivers,    \* the loops: "run", "chat"
          NoFile,       \* no file
          ReadErrors,   \* whether a read of a staging file may fail as such
          MaxStarts     \* bound: processes started

ASSUME SteerAssumption ==
    /\ "run" \in Drivers
    /\ NoFile \notin Nat /\ ReadErrors \in BOOLEAN
    /\ MaxStarts \in Nat

VARIABLES files,    \* files[f]: the pieces written to file f, in order
          queue,    \* the file named steer.jsonl, or NoFile
          steer,     \* steer[n]: where the call that sends n is
          fd,       \* fd[n]: the file it has open
          at,       \* at[d]: where the loop d is
          staging,  \* staging[d]: the file d has renamed away
          hand,     \* hand[d]: the notes d has read and not said
          starts,   \* processes started so far
          heard,    \* history: the notes said in a conversation, with whose
          whole,    \* history: notes that were complete lines of steer.jsonl
          earlier,  \* history: earlier[n]: the calls that had returned when n's opened
          dropped,  \* history: the notes loops had taken and not said when they ended
          unread    \* history: the notes in files that loops could not read

steerVars == <<files, queue, steer, fd, at, staging, hand, starts, heard, whole, earlier,
          dropped, unread>>

NotePieces == {"first", "second", "newline"}
NoteLine(n) == << <<n, "first">>, <<n, "second">> >>

SteerTypeOK ==
    /\ files \in Seq(Seq(Notes \X NotePieces))
    /\ queue \in (1..Len(files)) \cup {NoFile}
    /\ steer \in [Notes -> {"new", "open", "first", "second", "newline", "queued", "refused"}]
    /\ fd \in [Notes -> (1..Len(files)) \cup {NoFile}]
    /\ at \in [Drivers -> {"off", "boundary", "read", "remove", "say"}]
    /\ staging \in [Drivers -> (1..Len(files)) \cup {NoFile}]
    /\ hand \in [Drivers -> Seq(Notes)]
    /\ starts \in 0..MaxStarts
    /\ heard \in Seq(Drivers \X Notes)
    /\ whole \subseteq Notes /\ dropped \subseteq Notes /\ unread \subseteq Notes
    /\ earlier \in [Notes -> SUBSET Notes]

SteerInit ==
    /\ files = <<>> /\ queue = NoFile
    /\ steer = [n \in Notes |-> "new"] /\ fd = [n \in Notes |-> NoFile]
    /\ at = [d \in Drivers |-> "off"]
    /\ staging = [d \in Drivers |-> NoFile] /\ hand = [d \in Drivers |-> <<>>]
    /\ starts = 0 /\ heard = <<>> /\ whole = {} /\ dropped = {} /\ unread = {}
    /\ earlier = [n \in Notes |-> {}]

sender == <<steer, fd, whole, earlier>>
loop   == <<at, staging, hand, starts, heard, dropped, unread>>

\* The notes that the lines of a file parse to, in order; a line that holds
\* anything but one whole note is dropped.
LineStarts(text, i) == i = 1 \/ text[i - 1][2] = "newline"
LineEnds(text, i)   == i = Len(text) \/ text[i + 1][2] = "newline"
IsNote(text, i) == /\ i < Len(text)
                   /\ LineStarts(text, i) /\ LineEnds(text, i + 1)
                   /\ SubSeq(text, i, i + 1) = NoteLine(text[i][1])

Parsed(text) ==
    LET Found[i \in 0..Len(text)] ==
          IF i = 0 THEN <<>>
          ELSE IF IsNote(text, i) THEN Append(Found[i - 1], text[i][1])
          ELSE Found[i - 1]
    IN  Found[Len(text)]

\* Note n is a line of the text, of the file.
InText(n, text) == \E i \in 1..Len(text) : IsNote(text, i) /\ text[i][1] = n
InFile(n, f)    == f # NoFile /\ InText(n, files[f])

\* A line was cut somewhere, perhaps inside a character of several bytes.
Torn(text) == \E i \in 1..Len(text) :
    /\ text[i][2] = "first"
    /\ ~(i < Len(text) /\ text[i + 1] = <<text[i][1], "second">>)

-----------------------------------------------------------------------------
(* chug_steer.                                                             *)

\* Only a live run is steered.
ProbeRun(n) ==
    /\ steer[n] = "new"
    /\ steer' = [steer EXCEPT ![n] = IF at["run"] = "off" THEN "refused" ELSE "open"]
    /\ UNCHANGED <<files, queue, fd, whole, earlier, loop>>

\* open(append, create): the file that has the name now, or a new one.
Open(n) ==
    /\ steer[n] = "open"
    /\ IF queue = NoFile
       THEN /\ files' = Append(files, <<>>)
            /\ queue' = Len(files) + 1
       ELSE UNCHANGED <<files, queue>>
    /\ fd' = [fd EXCEPT ![n] = queue']
    /\ steer' = [steer EXCEPT ![n] = "first"]
    /\ earlier' = [earlier EXCEPT ![n] = {m \in Notes : steer[m] = "queued"}]
    /\ UNCHANGED <<whole, loop>>

Following(piece) == CASE piece = "first"   -> "second"
                      [] piece = "second"  -> "newline"
                      [] piece = "newline" -> "queued"

\* writeln!, one piece of the line after the other.
WriteNote(n) ==
    /\ steer[n] \in NotePieces
    /\ files' = [files EXCEPT ![fd[n]] = Append(@, <<n, steer[n]>>)]
    /\ steer' = [steer EXCEPT ![n] = Following(@)]
    /\ whole' = whole \cup {m \in {n} : steer[n] = "newline" /\ queue = fd[n]
                                        /\ InText(m, files'[queue])}
    /\ UNCHANGED <<queue, fd, earlier, loop>>

\* A write that fails: "note NOT queued", whatever is in the file by then.
WriteNoteFails(n) ==
    /\ steer[n] \in NotePieces
    /\ steer' = [steer EXCEPT ![n] = "refused"]
    /\ UNCHANGED <<files, queue, fd, whole, earlier, loop>>

-----------------------------------------------------------------------------
(* The loops.                                                              *)

Start(d) ==
    /\ at[d] = "off" /\ starts < MaxStarts
    /\ starts' = starts + 1
    /\ at' = [at EXCEPT ![d] = "boundary"]
    /\ staging' = [staging EXCEPT ![d] = NoFile]   \* its name has another pid
    /\ UNCHANGED <<files, queue, hand, heard, sender, dropped, unread>>

\* Slip: the queue is copied, not renamed.
Take_Copy(d) ==
    /\ at[d] = "boundary" /\ queue # NoFile
    /\ staging' = [staging EXCEPT ![d] = queue]
    /\ at' = [at EXCEPT ![d] = "read"]
    /\ UNCHANGED <<files, queue, hand, starts, heard, sender, dropped, unread>>

\* Slip: one staging name for all, never overwritten.
Take_SharedName(d) ==
    /\ at[d] = "boundary" /\ queue # NoFile
    /\ \A e \in Drivers : staging[e] = NoFile
    /\ staging' = [staging EXCEPT ![d] = queue] /\ queue' = NoFile
    /\ at' = [at EXCEPT ![d] = "read"]
    /\ UNCHANGED <<files, hand, starts, heard, sender, dropped, unread>>

\* drain_steering_queue: rename away ...
Take(d) ==
    /\ at[d] = "boundary" /\ queue # NoFile
    /\ staging' = [staging EXCEPT ![d] = queue] /\ queue' = NoFile
    /\ at' = [at EXCEPT ![d] = "read"]
    /\ UNCHANGED <<files, hand, starts, heard, sender, dropped, unread>>

\* ... read; a file that is not UTF-8 as a whole is not read at all, and what
\* was not read is nothing ...
Read(d) ==
    /\ at[d] = "read"
    /\ LET text == files[staging[d]]
       IN  \/ hand' = [hand EXCEPT ![d] = Parsed(text)] /\ UNCHANGED unread
          \/ /\ ~ReadErrors => Torn(text)
             /\ hand' = [hand EXCEPT ![d] = <<>>]
             /\ unread' = unread \cup {n \in Notes : InText(n, text)}
    /\ at' = [at EXCEPT ![d] = "remove"]
    /\ UNCHANGED <<files, queue, staging, starts, heard, sender, dropped>>

\* Slip: what is removed is the queue as it is by now.
RemoveStaging_Queue(d) ==
    /\ at[d] = "remove"
    /\ staging' = [staging EXCEPT ![d] = NoFile] /\ queue' = NoFile
    /\ at' = [at EXCEPT ![d] = "say"]
    /\ UNCHANGED <<files, hand, starts, heard, sender, dropped, unread>>

\* ... and remove the staging file.
RemoveStaging(d) ==
    /\ at[d] = "remove"
    /\ staging' = [staging EXCEPT ![d] = NoFile]
    /\ at' = [at EXCEPT ![d] = "say"]
    /\ UNCHANGED <<files, queue, hand, starts, heard, sender, dropped, unread>>

\* append_steering_notes, one after the other; then the iteration goes on, to
\* the next boundary.
SayNotes(d) ==
    /\ at[d] = "say"
    /\ IF hand[d] = <<>>
       THEN at' = [at EXCEPT ![d] = "boundary"] /\ UNCHANGED <<hand, heard>>
       ELSE /\ heard' = Append(heard, <<d, Head(hand[d])>>)
            /\ hand' = [hand EXCEPT ![d] = Tail(@)]
            /\ UNCHANGED at
    /\ UNCHANGED <<files, queue, staging, starts, sender, dropped, unread>>

\* The end of the run, a kill, or an append to the transcript that fails.
Exit(d) ==
    /\ at[d] # "off"
    /\ at' = [at EXCEPT ![d] = "off"]
    /\ hand' = [hand EXCEPT ![d] = <<>>]
    /\ dropped' = dropped \cup {n \in Notes : \/ at[d] = "read" /\ InFile(n, staging[d])
                                             \/ \E i \in 1..Len(hand[d]) : hand[d][i] = n}
    /\ UNCHANGED <<files, queue, staging, starts, heard, sender, unread>>

-----------------------------------------------------------------------------
Steer(n)    == ProbeRun(n) \/ Open(n) \/ WriteNote(n) \/ WriteNoteFails(n)
LoopStep(d) == Take(d) \/ Read(d) \/ RemoveStaging(d) \/ SayNotes(d)

SteerNext == \/ \E n \in Notes : Steer(n)
        \/ \E d \in Drivers : Start(d) \/ LoopStep(d) \/ Exit(d)

\* A loop that goes on comes to its next boundary: DriveLoop!Terminates rests
\* on the same fairness.  Nothing obliges a sender, a start or an end.
SteerFair == \A d \in Drivers : WF_steerVars(LoopStep(d))

SteerSpec == SteerInit /\ [][SteerNext]_steerVars /\ SteerFair

-----------------------------------------------------------------------------
(* Properties.                                                             *)

\* A note that was a complete line of steer.jsonl is still there, or on its
\* way in exactly the loop that took it, or said; only the end of that loop, or
\* a read of the whole file that fails, can cost it.  ("never lost" of driver.rs, for lines that no rename
\* overtook: a line whose last pieces go to the staging file may be.)
NothingQueuedIsLost ==
    \A n \in whole :
        \/ InFile(n, queue)
        \/ \E d \in Drivers : at[d] = "read" /\ InFile(n, staging[d])
        \/ \E d \in Drivers : \E i \in 1..Len(hand[d]) : hand[d][i] = n
        \/ \E i \in 1..Len(heard) : heard[i][2] = n
        \/ n \in dropped \/ n \in unread

\* "a staging read failure or a malformed line drops just that line", driver.rs
\* says of the queue: a line of somebody else costs no whole note.
JustThatLine == whole \cap unread = {}

\* Whoever drains, a note is said once, not to the run and to a chat beside it:
\* an `allow destructive' is not given twice.  And notes sent one after the
\* other are heard by a loop in that order.
SaidOnceInOrder ==
    \A i, j \in 1..Len(heard) :
        /\ heard[i][2] = heard[j][2] => i = j
        /\ i < j /\ heard[i][1] = heard[j][1] => heard[j][2] \notin earlier[heard[i][2]]

\* A queue is taken at some boundary, as long as a loop goes on in the
\* directory: what a dead one left behind does not stand in the way.
Drained ==
    (queue # NoFile) ~> (queue = NoFile \/ \A d \in Drivers : at[d] = "off")
=============================================================================
