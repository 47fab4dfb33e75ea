----------------------------- MODULE MCSession ------------------------------
(* Instances of Session for TLC.                                           *)
EXTENDS Session

\* What an edit writes in place of a message.
TextOrReply == {Text(0), Asst(0, 0)}

\* `chug run' in a directory in which nothing has run yet, killed between
\* steps, in the middle of a line or of a character.
Run == [procs |-> {"run"}, deaths |-> {"step", "write", "char"}, left |-> {<<>>},
        images |-> FALSE, rotateFails |-> FALSE, starts |-> 3, lines |-> 6]

\* With tools that return images, some of which are refused.
Shown == [Run EXCEPT !.images = TRUE, !.deaths = {"step"}, !.starts = 2]

\* Killed between a line and its newline.
Rushed == [Run EXCEPT !.deaths = {"step", "write", "newline"}, !.lines = 5]

\* A run and a chat side by side where the last session died before the
\* results of its tools were written, dying anywhere.
Shared == [procs |-> {"run", "chat"}, deaths |-> {"step", "write", "newline"},
           left |-> {<<Text(0), Asst(0, 1)>>}, images |-> FALSE, rotateFails |-> TRUE,
           starts |-> 2, lines |-> 4]

\* The two side by side, in a new directory, and nobody dies.
Beside == [Shared EXCEPT !.deaths = {}, !.left = {<<>>}, !.rotateFails = FALSE,
                         !.starts = 3, !.lines = 5]

\* Chats only.
Chats == [Beside EXCEPT !.procs = {"chat"}, !.lines = 6]

RunsAndShared == {Run, Shown, Rushed, Shared}
BesideOnly    == {Beside}
ChatsOnly     == {Chats}
=============================================================================
