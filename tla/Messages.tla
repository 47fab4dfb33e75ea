------------------------------ MODULE Messages ------------------------------
(***************************************************************************)
(* The messages of a conversation, as far as the harness looks into them:  *)
(* who wrote a message, whether it asks for a tool (`asst' with an id),    *)
(* answers one (`result', perhaps with an image) or stands for messages    *)
(* that were collapsed (`marker').  The tool calls of one answer are executed and answered as  *)
(* one batch, so one id stands for the whole batch; 0 is no batch.         *)
(***************************************************************************)
EXTENDS Integers, Sequences

Kinds == {"text", "asst", "result", "marker"}

Message(Sessions, Ids) == [kind : Kinds, id : Ids \cup {0}, by : Sessions, image : BOOLEAN]

Text(s)       == [kind |-> "text",   id |-> 0, by |-> s, image |-> FALSE]
Marker(s)     == [kind |-> "marker", id |-> 0, by |-> s, image |-> FALSE]
Asst(s, id)   == [kind |-> "asst",   id |-> id, by |-> s, image |-> FALSE]
Result(s, id) == [kind |-> "result", id |-> id, by |-> s, image |-> FALSE]

Role(m) == IF m.kind = "asst" THEN "assistant" ELSE "user"

\* api.rs, replace_images_with_placeholder.
Bare(m)   == [m EXCEPT !.image = FALSE]
Bared(ms) == [i \in 1..Len(ms) |-> Bare(ms[i])]

Asks(m)       == m.kind = "asst" /\ m.id # 0
Answers(n, m) == n.kind = "result" /\ Asks(m) /\ n.id = m.id

\* live_ctx.rs, pairs_intact, and what the endpoint insists on: every tool_use
\* is answered by the next message, every tool_result answers the one before.
pairs_intact(ms) ==
    \A i \in 1..Len(ms) :
        /\ Asks(ms[i]) => i < Len(ms) /\ Answers(ms[i + 1], ms[i])
        /\ ms[i].kind = "result" => i > 1 /\ Answers(ms[i], ms[i - 1])

\* The messages at the positions `gone' give way to markers, at the positions
\* `heads': runs of messages, each with its marker where the run begins.
Spliced(ms, gone, heads, marker) ==
    LET upto[n \in 0..Len(ms)] ==
            IF n = 0 THEN <<>>
            ELSE IF n \notin gone THEN Append(upto[n - 1], ms[n])
            ELSE IF n \in heads THEN Append(upto[n - 1], marker)
            ELSE upto[n - 1]
    IN  upto[Len(ms)]

Firsts(gone)      == {i \in gone : i - 1 \notin gone}
Runs(gone, heads) == Firsts(gone) \subseteq heads /\ heads \subseteq gone
=============================================================================
