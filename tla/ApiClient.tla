------------------------------ MODULE ApiClient ------------------------------
(***************************************************************************)
(* src/src/api.rs: Client::complete.  One call of the Messages API is a    *)
(* number of attempts, each with an accumulator of its own that puts the   *)
(* reply together from the events of a stream.  The stream can stop, break *)
(* or fail at any event; a reply the driver gets is acted upon (its tool   *)
(* calls are executed), so half a reply must never be taken for one.       *)
(*                                                                         *)
(* The reply is Blocks content blocks of Pieces pieces each.               *)
(***************************************************************************)
EXTENDS Naturals, Sequences

CONSTANTS Blocks, Pieces,
          Attempts,   \* retry_delays.len() + 1 (10 in the code)
          Completes   \* bound: calls

ASSUME ApiAssumption ==
    /\ Blocks \in Nat \ {0} /\ Pieces \in Nat
    /\ Attempts \in Nat \ {0} /\ Completes \in Nat

VARIABLES call,     \* [pc, n (calls begun), attempt, pos (the event that comes next)]
          acc,      \* StreamAccumulator: blocks, the open one, message_stop_seen, error
          reply,    \* what the last call returned
          latch,    \* FallbackLatch
          notes     \* stream_fallback lines of the run

apiVars == <<call, acc, reply, latch, notes>>

\* The stream: for each block its start (0), its pieces and its stop, then
\* message_stop as the step 0 of one block more.  A position is the event that
\* comes next.
AtStart  == [block |-> 1, step |-> 0]
Stops    == Pieces + 1
Last(p)  == p.block > Blocks
After(p) == IF ~Last(p) /\ p.step = Stops
            THEN [block |-> p.block + 1, step |-> 0] ELSE [p EXCEPT !.step = @ + 1]
AtEnd(p) == Last(p) /\ p.step = 1

NoBlock == [index |-> 0, pieces |-> <<>>]
Fresh   == [blocks |-> <<>>, open |-> NoBlock, stop |-> FALSE, error |-> "none"]
NoReply == <<"none">>
Whole   == [b \in 1..Blocks |-> [k \in 1..Pieces |-> k]]

ApiTypeOK ==
    /\ call \in [pc : {"idle", "send", "body", "sleep"}, n : 0..Completes,
                 attempt : 0..Attempts,
                 pos : [block : 1..Blocks + 1, step : 0..Stops]]
    /\ acc.blocks \in Seq(Seq(1..Pieces)) /\ Len(acc.blocks) <= Blocks
    /\ acc.open.index \in 0..Blocks /\ acc.error \in {"none", "retryable", "malformed"}
    /\ latch \in {"fresh", "pending", "consumed"} /\ notes \in 0..Completes

ApiInit ==
    /\ call = [pc |-> "idle", n |-> 0, attempt |-> 0, pos |-> AtStart] /\ acc = Fresh
    /\ reply = NoReply /\ latch = "fresh" /\ notes = 0

CallAt(l) == call.pc = l

Complete ==
    /\ CallAt("idle") /\ call.n < Completes
    /\ call' = [pc |-> "send", n |-> call.n + 1, attempt |-> 1, pos |-> AtStart]
    /\ acc' = Fresh /\ reply' = NoReply
    /\ UNCHANGED <<latch, notes>>

\* The driver asks for the note after every call.
Returns(r) ==
    /\ reply' = r /\ call' = [call EXCEPT !.pc = "idle"] /\ UNCHANGED acc

\* A failure that is worth another attempt, if there is one left.
Again ==
    IF call.attempt < Attempts
    THEN call' = [call EXCEPT !.pc = "sleep"] /\ UNCHANGED <<acc, reply>>
    ELSE Returns(NoReply)

\* Connection errors, the activity and read time limits, 429, 502-504 and 529;
\* anything else is final.
Breaks ==
    /\ call.pc \in {"send", "body"}
    /\ Again \/ Returns(NoReply)
    /\ UNCHANGED <<latch, notes>>

\* Slip: the next attempt goes on with the accumulator of the last.
NextAttempt_Kept ==
    /\ CallAt("sleep")
    /\ call' = [call EXCEPT !.pc = "send", !.attempt = @ + 1, !.pos = AtStart]
    /\ UNCHANGED <<acc, reply, latch, notes>>

NextAttempt ==
    /\ CallAt("sleep")
    /\ call' = [call EXCEPT !.pc = "send", !.attempt = @ + 1, !.pos = AtStart]
    /\ acc' = Fresh
    /\ UNCHANGED <<reply, latch, notes>>

\* A proxy answers with plain JSON: complete, or cut short and then unparseable.
Latched == IF latch = "fresh" THEN "pending" ELSE latch

Downgrade ==
    /\ CallAt("send") /\ latch' = Latched
    /\ \E r \in {Whole, NoReply} : Returns(r)
    /\ UNCHANGED notes

StreamOpens ==
    /\ CallAt("send") /\ call' = [call EXCEPT !.pc = "body"]
    /\ UNCHANGED <<acc, reply, latch, notes>>

\* apply_event, for the event at position p.
Applied(a, p) ==
    IF a.error # "none" THEN a
    ELSE IF Last(p) THEN [a EXCEPT !.stop = TRUE]
    ELSE IF p.step = 0 THEN [a EXCEPT !.open = [index |-> p.block, pieces |-> <<>>]]
    ELSE IF p.step = Stops
         THEN [a EXCEPT !.blocks = Append(@, a.open.pieces), !.open = NoBlock]
    ELSE IF a.open.index = p.block
         THEN [a EXCEPT !.open.pieces = Append(@, p.step)]
    ELSE a

StreamEvent ==
    /\ CallAt("body") /\ ~AtEnd(call.pos)
    /\ acc' = Applied(acc, call.pos) /\ call' = [call EXCEPT !.pos = After(@)]
    /\ UNCHANGED <<reply, latch, notes>>

\* An `error' event, or data that is no JSON: latched, the rest is ignored.
StreamError ==
    /\ CallAt("body") /\ acc.error = "none"
    /\ \E e \in {"retryable", "malformed"} : acc' = [acc EXCEPT !.error = e]
    /\ UNCHANGED <<call, reply, latch, notes>>

\* The body ends, wherever: finish.
Truncated == acc.open # NoBlock \/ ~acc.stop

finish ==
    /\ CallAt("body")
    /\ \/ acc.error = "malformed" /\ Returns(NoReply)
       \/ acc.error = "retryable" /\ Again
       \/ acc.error = "none" /\ Truncated /\ Again
       \/ acc.error = "none" /\ ~Truncated /\ Returns(acc.blocks)
    /\ UNCHANGED <<latch, notes>>

take_stream_fallback ==
    /\ CallAt("idle") /\ latch = "pending"
    /\ latch' = "consumed" /\ notes' = notes + 1
    /\ UNCHANGED <<call, acc, reply>>

ApiNext ==
    \/ Complete \/ Breaks \/ NextAttempt \/ Downgrade \/ StreamOpens
    \/ StreamEvent \/ StreamError \/ finish \/ take_stream_fallback

ApiSpec == ApiInit /\ [][ApiNext]_apiVars

-----------------------------------------------------------------------------
\* What complete returns is the whole reply of one attempt: not one that was
\* cut short, where an open tool call would be executed with half its input
\* (T141), nor one put together from two attempts.  And the run notes once
\* that streaming was refused.
ReplyIsWhole == reply \in {NoReply, Whole} /\ notes <= 1
=============================================================================
