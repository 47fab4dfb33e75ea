-------------------------------- MODULE Fork --------------------------------
(***************************************************************************)
(* src/src/fork.rs: `chug fork save' and `restore' copy the transcript and *)
(* the ledger of a directory into a slot and back.  A restore moves what   *)
(* is there out of the way first, with the archiving a fresh run begins    *)
(* with (transcript::rotate_fresh, ledger::archive_stale).                 *)
(*                                                                         *)
(* Messages are numbered, and so are the versions of the ledger.  There is *)
(* one slot, and one fork command at a time; every step of it may fail or  *)
(* be its last.  Meanwhile runs and chats start, write and end.  What a    *)
(* session does to its own transcript is in Session: here it only appends. *)
(***************************************************************************)
EXTENDS Naturals, Sequences

CONSTANTS MaxMessages,  \* bound: messages
          MaxTexts,     \* bound: versions of the ledger
          MaxCommands,  \* bound: fork commands
          MaxSessions,  \* bound: runs and chats
          Odd           \* the versions of the ledger that are not UTF-8

\* What LEDGER.md may be: not there, pristine, half of a copy, or a version.
Absent     == 0
Seed       == 1
Half       == 2
Version(n) == n + 2
Ledgers    == 0..Version(MaxTexts)

ASSUME ForkAssumption ==
    /\ {MaxMessages, MaxTexts, MaxCommands, MaxSessions} \subseteq Nat
    /\ Odd \subseteq 1..MaxTexts

VARIABLES live,      \* the transcript t and the ledger l of the directory
          archive,   \* the messages t and the ledgers l in archive files
          slot,      \* its directory exists, with a transcript; its t and l
          open,      \* the sessions that are going on
          cmd,       \* where the fork command is
          restored,  \* the last restore succeeded, and nothing happened since
          used,      \* messages, versions, commands and sessions so far
          owed,      \* history: the versions that no session replaced
          raced      \* history: a session was open during a restore

forkVars == <<live, archive, slot, open, cmd, restored, used, owed, raced>>

Openers     == {"run", "chat"}
Restoring == {"rotate", "rotateLedger", "restore", "restoreLedger"}
Upto(s)   == {SubSeq(s, 1, k) : k \in 0..Len(s)}
NoSlot    == [dir |-> FALSE, file |-> FALSE, t |-> <<>>, l |-> Absent]

ForkTypeOK ==
    /\ live \in [t : Seq(1..MaxMessages), l : Ledgers]
    /\ archive \in [t : SUBSET (1..MaxMessages), l : SUBSET Ledgers]
    /\ slot \in [dir : BOOLEAN, file : BOOLEAN, t : Seq(1..MaxMessages), l : Ledgers]
    /\ open \subseteq Openers
    /\ cmd \in {"none", "remove", "save", "saveLedger"} \cup Restoring
    /\ restored \in BOOLEAN /\ raced \in BOOLEAN
    /\ used \in [m : 0..MaxMessages, v : 0..MaxTexts, c : 0..MaxCommands, s : 0..MaxSessions]
    /\ owed \subseteq Ledgers

ForkInit ==
    /\ live = [t |-> <<>>, l |-> Absent] /\ archive = [t |-> {}, l |-> {}]
    /\ slot = NoSlot /\ open = {} /\ cmd = "none" /\ restored = FALSE /\ raced = FALSE
    /\ used = [m |-> 0, v |-> 0, c |-> 0, s |-> 0] /\ owed = {}

-----------------------------------------------------------------------------
(* Archiving, of a fresh run and of a restore.                             *)

MessagesIn(t) == {t[i] : i \in 1..Len(t)}

\* transcript::rotate_fresh: an empty one stays.
TranscriptAway ==
    /\ live' = [live EXCEPT !.t = <<>>]
    /\ archive' = [archive EXCEPT !.t = @ \cup MessagesIn(live.t)]

\* Slip: only a ledger that the slot replaces has to go.
Skipped_Kept == live.l \in {Absent, Seed} \/ slot.l = Absent

\* ledger::archive_stale skips the seed, and what read_to_string cannot read.
Skipped == live.l \in {Absent, Seed} \cup {Version(n) : n \in Odd}

LedgerAway ==
    IF Skipped THEN UNCHANGED <<live, archive>>
    ELSE /\ live' = [live EXCEPT !.l = Absent]
         /\ archive' = [archive EXCEPT !.l = @ \cup {live.l}]

Seeded(l) == IF l = Absent THEN Seed ELSE l

-----------------------------------------------------------------------------
(* Sessions.  A run takes the driver lock; a chat does not.                *)

Begin(p) ==
    /\ p \notin open /\ used.s < MaxSessions
    /\ open' = open \cup {p} /\ used' = [used EXCEPT !.s = @ + 1]
    /\ restored' = FALSE /\ raced' = (raced \/ cmd \in Restoring)

\* A fresh run archives as far as it can, and goes on where it cannot.
OpenFresh ==
    /\ Begin("run")
    /\ \E t, l \in BOOLEAN :
          /\ live' = [t |-> IF t THEN <<>> ELSE live.t,
                      l |-> IF l /\ ~Skipped THEN Seed ELSE Seeded(live.l)]
          /\ archive' = [t |-> IF t THEN archive.t \cup MessagesIn(live.t) ELSE archive.t,
                         l |-> IF l /\ ~Skipped THEN archive.l \cup {live.l} ELSE archive.l]
    /\ UNCHANGED <<slot, cmd, owed>>

\* A resumed run, a chat.
OpenOn(p) ==
    /\ Begin(p) /\ live' = [live EXCEPT !.l = Seeded(@)]
    /\ UNCHANGED <<archive, slot, cmd, owed>>

SayMore(p) ==
    /\ p \in open /\ used.m < MaxMessages
    /\ used' = [used EXCEPT !.m = @ + 1]
    /\ live' = [live EXCEPT !.t = Append(@, used.m + 1)]
    /\ restored' = FALSE /\ UNCHANGED <<archive, slot, open, cmd, owed, raced>>

\* update_ledger, or any other tool.
WriteLedger(p) ==
    /\ p \in open /\ used.v < MaxTexts
    /\ used' = [used EXCEPT !.v = @ + 1]
    /\ live' = [live EXCEPT !.l = Version(used.v + 1)]
    /\ owed' = (owed \ {live.l}) \cup {Version(used.v + 1)}
    /\ restored' = FALSE /\ UNCHANGED <<archive, slot, open, cmd, raced>>

End(p) ==
    /\ p \in open /\ open' = open \ {p}
    /\ UNCHANGED <<live, archive, slot, cmd, restored, used, owed, raced>>

-----------------------------------------------------------------------------
(* save.                                                                   *)

Command ==
    /\ cmd = "none" /\ used.c < MaxCommands
    /\ used' = [used EXCEPT !.c = @ + 1] /\ restored' = FALSE

Goes(next) == cmd' = next /\ restored' = FALSE

\* There is something to save, and --force removes the slot there was.
Save ==
    /\ Command /\ live.t # <<>>
    /\ cmd' = IF slot.dir THEN "remove" ELSE "save"
    /\ UNCHANGED <<live, archive, slot, open, owed, raced>>

RemovePath ==
    /\ cmd = "remove"
    /\ \/ slot' = NoSlot /\ Goes("save")
       \/ slot' \in {[slot EXCEPT !.file = FALSE, !.t = <<>>], [slot EXCEPT !.l = Absent], slot}
          /\ Goes("none")
    /\ UNCHANGED <<live, archive, open, used, owed, raced>>

\* The transcript as it is by now: a run may have rotated it away, or go on
\* with it.
SaveTranscript ==
    /\ cmd = "save"
    /\ \/ /\ live.t # <<>> /\ Goes("saveLedger")
          /\ slot' = [dir |-> TRUE, file |-> TRUE, t |-> live.t, l |-> Absent]
       \/ /\ Goes("none")
          /\ \/ slot' \in {NoSlot, [NoSlot EXCEPT !.dir = TRUE]}
             \/ /\ live.t # <<>>
                /\ slot' \in [dir : {TRUE}, file : {TRUE}, t : Upto(live.t), l : {Absent}]
    /\ UNCHANGED <<live, archive, open, used, owed, raced>>

SaveLedger ==
    /\ cmd = "saveLedger" /\ Goes("none")
    /\ \E l \in {live.l} \cup (IF live.l = Absent THEN {} ELSE {Absent, Half}) :
          slot' = [slot EXCEPT !.l = l]
    /\ UNCHANGED <<live, archive, open, used, owed, raced>>

-----------------------------------------------------------------------------
(* restore.                                                                *)

\* No run holds the driver lock, asked once; the slot has a transcript.
Restore ==
    /\ Command /\ "run" \notin open /\ slot.file
    /\ cmd' = "rotate" /\ raced' = (raced \/ open # {})
    /\ UNCHANGED <<live, archive, slot, open, owed>>

\* Slip: a failed rotation is only warned about, as in a fresh run.
Rotate_Warned ==
    /\ cmd = "rotate" /\ Goes("rotateLedger")
    /\ TranscriptAway \/ UNCHANGED <<live, archive>>
    /\ UNCHANGED <<slot, open, used, owed, raced>>

Rotate ==
    /\ cmd = "rotate"
    /\ \/ TranscriptAway /\ Goes("rotateLedger")
       \/ UNCHANGED <<live, archive>> /\ Goes("none")
    /\ UNCHANGED <<slot, open, used, owed, raced>>

RotateLedger ==
    /\ cmd = "rotateLedger"
    /\ \/ LedgerAway /\ Goes("restore")
       \/ UNCHANGED <<live, archive>> /\ Goes("none")
    /\ UNCHANGED <<slot, open, used, owed, raced>>

RestoreTranscript ==
    /\ cmd = "restore"
    /\ \/ live' = [live EXCEPT !.t = slot.t]
          /\ IF slot.l = Absent THEN cmd' = "none" /\ restored' = TRUE ELSE Goes("restoreLedger")
       \/ live' \in {[live EXCEPT !.t = t] : t \in Upto(slot.t)} /\ Goes("none")
    /\ UNCHANGED <<archive, slot, open, used, owed, raced>>

RestoreLedger ==
    /\ cmd = "restoreLedger"
    /\ \/ live' = [live EXCEPT !.l = slot.l] /\ cmd' = "none" /\ restored' = TRUE
       \/ live' \in {[live EXCEPT !.l = Half], live} /\ Goes("none")
    /\ UNCHANGED <<archive, slot, open, used, owed, raced>>

-----------------------------------------------------------------------------
ForkNext ==
    \/ OpenFresh \/ \E p \in Openers : OpenOn(p) \/ SayMore(p) \/ WriteLedger(p) \/ End(p)
    \/ Save \/ RemovePath \/ SaveTranscript \/ SaveLedger
    \/ Restore \/ Rotate \/ RotateLedger \/ RestoreTranscript \/ RestoreLedger

ForkSpec == ForkInit /\ [][ForkNext]_forkVars

-----------------------------------------------------------------------------
(* Properties.                                                             *)

\* "Nothing is lost" (fork.rs:14): whatever fork commands succeed, fail or stop
\* half way, in any order, a message is in the transcript or in an archive,
\* and so is a version of the ledger that no session replaced.  The exception
\* is a session that was open while files were moved: restore asks for a run
\* once, and not for chats.
ForkKeeps ==
    ~raced => /\ 1..used.m \subseteq MessagesIn(live.t) \cup archive.t
              /\ owed \subseteq {live.l} \cup archive.l

\* A restore that reports success leaves what the slot has and nothing of
\* another session, also after saves and restores that failed half way.
RestoresSlot ==
    restored /\ ~raced => /\ live.t = slot.t
                          /\ live.l = slot.l \/ (slot.l = Absent /\ live.l = Seed)
=============================================================================
