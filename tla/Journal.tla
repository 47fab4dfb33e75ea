------------------------------ MODULE Journal -------------------------------
(***************************************************************************)
(* What .chug/transcript.jsonl promises: a history that only grows at its  *)
(* end, by whole messages in an order the endpoint accepts, that is        *)
(* compacted only so that whole exchanges stay, and never in its first     *)
(* message, and that a fresh run starts anew.  A crash, however it falls, and the       *)
(* recovery from it change nothing.                                        *)
(***************************************************************************)
EXTENDS Messages

VARIABLE log

Init == log = <<>>

\* The last message waits for the results of its tools.
Open(ms) == ms # <<>> /\ Asks(ms[Len(ms)])

Grow ==
    /\ Len(log') = Len(log) + 1 /\ SubSeq(log', 1, Len(log)) = log
    /\ LET m == log'[Len(log')]
       IN  IF Open(log) THEN Answers(m, log[Len(log)]) ELSE m.kind # "result"

Alike(m, n) == m.by = n.by /\ Role(m) = Role(n)

\* Runs of messages give way to markers; what a message that stays says may be
\* edited, but not whose it is, nor the first.
Compact ==
    /\ \E gone \in SUBSET (2..Len(log)) : \E heads \in SUBSET gone :
         \E s \in {log[k].by : k \in 1..Len(log)} :
             LET c == Spliced(log, gone, heads, Marker(s))
             IN  /\ Runs(gone, heads) /\ Len(log') = Len(c)
                 /\ \A k \in 1..Len(c) : Alike(log'[k], c[k])
                 /\ Bare(log'[1]) = Bare(log[1])
    /\ pairs_intact(log) /\ pairs_intact(log')

Begin == log' = <<>>

Next == Grow \/ Compact \/ Begin

Spec == Init /\ [][Next]_log
=============================================================================
