--------------------------- MODULE ExchangesProofs ---------------------------
(***************************************************************************)
(* Proofs about Exchanges, each for every value of the constants: what the *)
(* properties of its six parts say of a behaviour, whatever the other end  *)
(* does.  Each part has an inductive invariant of its own, which speaks of *)
(* the steps in between: what a half-read stream has put together, whose   *)
(* answer lies in a channel, where a note is that is in nobody's hand.     *)
(***************************************************************************)
EXTENDS Exchanges, SteerQueueProofs, SequenceTheorems, TLAPS

-----------------------------------------------------------------------------
(* The parts.                                                              *)

LEMMA StepOfPart ==
  ASSUME [Next]_vars
  PROVE  /\ [ApiNext]_apiVars /\ [HttpNext]_httpVars /\ [StdioNext]_stdioVars
         /\ [ShellNext]_shellVars /\ [SteerNext]_steerVars /\ [SinksNext]_sinkVars
<1>1. CASE UNCHANGED vars
  BY <1>1 DEF vars
<1>2. CASE Next
  BY <1>2 DEF Next, Rest
<1> QED BY <1>1, <1>2

-----------------------------------------------------------------------------
(* ApiClient.  An attempt that met no error has in its accumulator what    *)
(* the events before its position say, no more and no less.                *)

Text(n) == [k \in 1..n |-> k]

Accumulators == [blocks : Seq(Seq(1..Pieces)), open : [index : 0..Blocks, pieces : Seq(1..Pieces)],
                 stop : BOOLEAN, error : {"none", "retryable", "malformed"}]
Positions == {p \in [block : 1..Blocks + 1, step : 0..Stops] : Last(p) => p.step <= 1}
Calls     == [pc : {"idle", "send", "body", "sleep"}, n : 0..Completes,
              attempt : 0..Attempts, pos : Positions]

\* What accumulator a is worth at position p.
Gathered(a, p) ==
    /\ Len(a.blocks) = p.block - 1
    /\ \A b \in 1..p.block - 1 : a.blocks[b] = Text(Pieces)
    /\ a.open = IF Last(p) \/ p.step = 0 THEN NoBlock
                ELSE [index |-> p.block, pieces |-> Text(p.step - 1)]
    /\ a.stop <=> AtEnd(p)

ApiTyped ==
    /\ call \in Calls /\ acc \in Accumulators /\ Len(acc.blocks) <= Blocks
    /\ latch \in {"fresh", "pending", "consumed"} /\ notes \in 0..Completes

InPosition == call.pc \in {"send", "body"} /\ acc.error = "none" => Gathered(acc, call.pos)
NotedOnce  == /\ notes = IF latch = "consumed" THEN 1 ELSE 0
              /\ latch # "fresh" => call.n > 0
SentAfresh == call.pc = "send" => acc = Fresh /\ call.pos = AtStart
Positive   == /\ call.pc # "idle" => call.n > 0
              /\ call.pc = "sleep" => call.attempt < Attempts

ApiInv == /\ ApiTyped /\ InPosition /\ NotedOnce /\ SentAfresh /\ Positive
          /\ reply \in {NoReply, Whole}

LEMMA ApiConstants ==
  Blocks \in Nat \ {0} /\ Pieces \in Nat /\ Attempts \in Nat \ {0} /\ Completes \in Nat
  BY ApiAssumption

LEMMA TextIsSeq == ASSUME NEW n \in Nat, n <= Pieces PROVE Text(n) \in Seq(1..Pieces) /\ Len(Text(n)) = n
  BY ApiConstants DEF Text

LEMMA FreshTyped == Fresh \in Accumulators /\ Len(Fresh.blocks) = 0
  BY ApiConstants DEF Fresh, Accumulators, NoBlock

LEMMA StartTyped == AtStart \in Positions /\ ~Last(AtStart) /\ AtStart.step = 0 /\ AtStart.block = 1
  BY ApiConstants DEF AtStart, Positions, Stops, Last

LEMMA FreshGathered == Gathered(Fresh, AtStart)
<1>1. Len(Fresh.blocks) = 0 /\ Fresh.open = NoBlock /\ ~Fresh.stop
  BY DEF Fresh
<1> QED BY <1>1, StartTyped, ApiConstants DEF Gathered, AtEnd

\* The whole of the stream leaves the whole of the reply.
LEMMA EndIsWhole ==
  ASSUME NEW a \in Accumulators, NEW p \in Positions, Gathered(a, p), a.stop
  PROVE  a.blocks = Whole
<1>1. p.block = Blocks + 1
  BY ApiConstants DEF Gathered, AtEnd, Last, Positions
<1>2. a.blocks \in Seq(Seq(1..Pieces)) /\ Len(a.blocks) = Blocks
  BY <1>1, ApiConstants DEF Gathered, Accumulators
<1>3. \A b \in 1..Blocks : a.blocks[b] = Text(Pieces)
  BY <1>1, ApiConstants DEF Gathered
<1>4. a.blocks = [b \in 1..Blocks |-> a.blocks[b]]
  BY <1>2, ApiConstants
<1> QED BY <1>3, <1>4 DEF Whole, Text

\* The stream goes on by one event.
LEMMA AfterIsPosition ==
  ASSUME NEW p \in Positions, ~AtEnd(p)
  PROVE  /\ After(p) \in Positions
         /\ Last(p) => /\ p.block = Blocks + 1 /\ p.step = 0
                       /\ After(p) = [block |-> Blocks + 1, step |-> 1]
         /\ ~Last(p) => p.block \in 1..Blocks
         /\ ~Last(p) /\ p.step = Stops => After(p) = [block |-> p.block + 1, step |-> 0]
         /\ ~Last(p) /\ p.step # Stops =>
               p.step \in 0..Pieces /\ After(p) = [block |-> p.block, step |-> p.step + 1]
<1> USE ApiConstants
<1>0. p \in [block : 1..Blocks + 1, step : 0..Stops] /\ p = [block |-> p.block, step |-> p.step]
  BY DEF Positions
<1>1. CASE Last(p)
  <2>1. p.block = Blocks + 1 /\ p.step = 0
    BY <1>0, <1>1 DEF Positions, AtEnd, Last
  <2>2. After(p) = [block |-> Blocks + 1, step |-> 1]
    BY <1>0, <1>1, <2>1 DEF After
  <2> QED BY <1>1, <2>1, <2>2 DEF Positions, Stops, Last
<1>2. CASE ~Last(p) /\ p.step = Stops
  <2>1. After(p) = [block |-> p.block + 1, step |-> 0] /\ p.block \in 1..Blocks
    BY <1>0, <1>2 DEF After, Last
  <2> QED BY <1>2, <2>1 DEF Positions, Stops
<1>3. CASE ~Last(p) /\ p.step # Stops
  <2>1. p.block \in 1..Blocks /\ p.step \in 0..Pieces
    BY <1>0, <1>3 DEF Last, Stops
  <2>2. After(p) = [block |-> p.block, step |-> p.step + 1]
    BY <1>0, <1>3 DEF After
  <2> QED BY <1>3, <2>1, <2>2 DEF Positions, Stops, Last
<1> QED BY <1>1, <1>2, <1>3

LEMMA EventIsGathered ==
  ASSUME NEW a \in Accumulators, NEW p \in Positions, Len(a.blocks) <= Blocks, ~AtEnd(p),
         a.error = "none" => Gathered(a, p)
  PROVE  /\ Applied(a, p) \in Accumulators /\ Len(Applied(a, p).blocks) <= Blocks
         /\ Applied(a, p).error = "none" => Gathered(Applied(a, p), After(p))
<1> USE ApiConstants
<1> DEFINE x == Applied(a, p)  q == After(p)
<1>0. CASE a.error # "none"
  BY <1>0 DEF Applied
<1>1. CASE a.error = "none" /\ Last(p)
  <2>1. x = [a EXCEPT !.stop = TRUE]
    BY <1>1 DEF Applied
  <2>2. p.step = 0 /\ p.block = Blocks + 1 /\ q = [block |-> Blocks + 1, step |-> 1]
    BY <1>1, AfterIsPosition
  <2>3. x \in Accumulators /\ x.blocks = a.blocks /\ x.open = a.open /\ x.stop
    BY <2>1 DEF Accumulators
  <2>4. Last(q) /\ AtEnd(q) /\ q.block = p.block
    BY <2>2 DEF AtEnd, Last
  <2> QED BY <1>1, <2>2, <2>3, <2>4 DEF Gathered
<1>2. CASE a.error = "none" /\ ~Last(p) /\ p.step = 0
  <2>1. x = [a EXCEPT !.open = [index |-> p.block, pieces |-> <<>>]]
    BY <1>2 DEF Applied
  <2>2. p.block \in 1..Blocks /\ q = [block |-> p.block, step |-> 1]
    BY <1>2, AfterIsPosition DEF Stops
  <2>3. [index |-> p.block, pieces |-> <<>>] \in [index : 0..Blocks, pieces : Seq(1..Pieces)]
    BY <2>2
  <2>4. /\ x \in Accumulators /\ x.blocks = a.blocks /\ x.stop = a.stop
        /\ x.open = [index |-> p.block, pieces |-> <<>>]
    BY <2>1, <2>3 DEF Accumulators
  <2>5. ~Last(q) /\ ~AtEnd(q) /\ q.block = p.block /\ q.step = 1
    BY <2>2 DEF Last, AtEnd
  <2>6. Text(1 - 1) = <<>>
    BY DEF Text
  <2> QED BY <1>2, <2>2, <2>4, <2>5, <2>6 DEF Gathered
<1>3. CASE a.error = "none" /\ ~Last(p) /\ p.step = Stops
  <2>1. x = [a EXCEPT !.blocks = Append(a.blocks, a.open.pieces), !.open = NoBlock]
    BY <1>3 DEF Applied, Stops
  <2>2. p.block \in 1..Blocks /\ q = [block |-> p.block + 1, step |-> 0]
    BY <1>3, AfterIsPosition
  <2>3. a.open.pieces = Text(Pieces)
    BY <1>3 DEF Gathered, Stops, NoBlock
  <2>4. Append(a.blocks, a.open.pieces) \in Seq(Seq(1..Pieces))
    BY <2>3, TextIsSeq DEF Accumulators
  <2>5. NoBlock \in [index : 0..Blocks, pieces : Seq(1..Pieces)]
    BY DEF NoBlock
  <2>6. x = [blocks |-> Append(a.blocks, a.open.pieces), open |-> NoBlock,
             stop |-> a.stop, error |-> a.error]
    BY <2>1 DEF Accumulators
  <2>7. x \in Accumulators
    BY <2>4, <2>5, <2>6 DEF Accumulators
  <2>8. Len(a.blocks) = p.block - 1 /\ a.blocks \in Seq(Seq(1..Pieces))
    BY <1>3 DEF Gathered, Accumulators
  <2>9. x.blocks = Append(a.blocks, Text(Pieces)) /\ x.open = NoBlock /\ x.stop = a.stop
    BY <2>3, <2>6
  <2>10. Len(x.blocks) = p.block
    BY <2>2, <2>8, <2>9
  <2>11. ASSUME NEW b \in 1..p.block PROVE x.blocks[b] = Text(Pieces)
    <3>1. CASE b = p.block
      BY <3>1, <2>2, <2>8, <2>9
    <3>2. CASE b # p.block
      <4>1. b \in 1..p.block - 1 /\ x.blocks[b] = a.blocks[b]
        BY <3>2, <2>2, <2>8, <2>9
      <4> QED BY <4>1, <1>3 DEF Gathered
    <3> QED BY <3>1, <3>2
  <2>12. ~a.stop
    BY <1>3 DEF Gathered, AtEnd
  <2>13. q.block = p.block + 1 /\ q.step = 0 /\ ~AtEnd(q) /\ q.block - 1 = p.block
    BY <2>2 DEF AtEnd
  <2> QED BY <1>3, <2>2, <2>7, <2>9, <2>10, <2>11, <2>12, <2>13 DEF Gathered
<1>4. CASE a.error = "none" /\ ~Last(p) /\ p.step # 0 /\ p.step # Stops
  <2>1. p.block \in 1..Blocks /\ p.step \in 1..Pieces /\ q = [block |-> p.block, step |-> p.step + 1]
    BY <1>4, AfterIsPosition
  <2>2. a.open = [index |-> p.block, pieces |-> Text(p.step - 1)]
    BY <1>4 DEF Gathered
  <2>3. x = [a EXCEPT !.open = [index |-> p.block, pieces |-> Append(Text(p.step - 1), p.step)]]
    <3>1. x = [a EXCEPT !.open.pieces = Append(a.open.pieces, p.step)]
      BY <1>4, <2>2 DEF Applied
    <3>2. a.open.pieces = Text(p.step - 1)
      BY <2>2
    <3>3. \A y : [a.open EXCEPT !.pieces = y] = [index |-> p.block, pieces |-> y]
      BY <2>2
    <3> QED BY <3>1, <3>2, <3>3
  <2>4. Append(Text(p.step - 1), p.step) = Text(p.step)
    BY <2>1 DEF Text
  <2>5. Text(p.step) \in Seq(1..Pieces)
    BY <2>1, TextIsSeq
  <2>6. /\ x \in Accumulators /\ x.blocks = a.blocks /\ x.stop = a.stop
        /\ x.open = [index |-> p.block, pieces |-> Text(p.step)]
    <3>1. [index |-> p.block, pieces |-> Text(p.step)] \in [index : 0..Blocks, pieces : Seq(1..Pieces)]
      BY <2>1, <2>5
    <3>2. x = [a EXCEPT !.open = [index |-> p.block, pieces |-> Text(p.step)]]
      BY <2>3, <2>4
    <3> QED BY <3>1, <3>2 DEF Accumulators
  <2>7. ~Last(q) /\ ~AtEnd(q) /\ q.block = p.block /\ q.step = p.step + 1 /\ q.step # 0
        /\ q.step - 1 = p.step
    BY <2>1 DEF Last, AtEnd
  <2> QED BY <1>4, <2>1, <2>6, <2>7 DEF Gathered, AtEnd
<1> QED BY <1>0, <1>1, <1>2, <1>3, <1>4

LEMMA ApiInitially == ApiInit => ApiInv
<1> SUFFICES ASSUME ApiInit PROVE ApiInv
  OBVIOUS
<1>1. call = [pc |-> "idle", n |-> 0, attempt |-> 0, pos |-> AtStart]
  BY DEF ApiInit
<1>2. call \in Calls
  BY <1>1, StartTyped, ApiConstants DEF Calls
<1> QED BY <1>1, <1>2, FreshTyped, ApiConstants
        DEF ApiInit, ApiInv, ApiTyped, InPosition, NotedOnce, SentAfresh, Positive

LEMMA ReturnsKeeps ==
  ASSUME ApiInv, NEW r \in {NoReply, Whole}, Returns(r), notes' = notes, latch' \in {latch, "pending"},
         latch' # latch => latch = "fresh", call.pc # "idle"
  PROVE  ApiInv'
<1>1. call' = [call EXCEPT !.pc = "idle"] /\ acc' = acc /\ reply' = r
  BY DEF Returns
<1>2. call' \in Calls /\ call'.pc = "idle" /\ call'.n = call.n
  BY <1>1 DEF ApiInv, ApiTyped, Calls
<1> QED BY <1>1, <1>2 DEF ApiInv, ApiTyped, InPosition, NotedOnce, SentAfresh, Positive

LEMMA AgainKeeps ==
  ASSUME ApiInv, Again, UNCHANGED <<latch, notes>>, call.pc # "idle"
  PROVE  ApiInv'
<1>1. CASE call.attempt < Attempts
  <2>1. call' = [call EXCEPT !.pc = "sleep"] /\ acc' = acc /\ reply' = reply
    BY <1>1 DEF Again
  <2>2. call' \in Calls /\ call'.pc = "sleep" /\ call'.n = call.n /\ call'.attempt = call.attempt
    BY <2>1 DEF ApiInv, ApiTyped, Calls
  <2> QED BY <1>1, <2>1, <2>2 DEF ApiInv, ApiTyped, InPosition, NotedOnce, SentAfresh, Positive
<1>2. CASE ~(call.attempt < Attempts)
  BY <1>2, ReturnsKeeps DEF Again
<1> QED BY <1>1, <1>2

LEMMA ApiStep == ApiInv /\ [ApiNext]_apiVars => ApiInv'
<1> SUFFICES ASSUME ApiInv, [ApiNext]_apiVars PROVE ApiInv'
  OBVIOUS
<1> USE ApiConstants
<1>0. call \in Calls /\ acc \in Accumulators
  BY DEF ApiInv, ApiTyped
<1>1. CASE Complete
  <2>1. call' = [pc |-> "send", n |-> call.n + 1, attempt |-> 1, pos |-> AtStart] /\ call.n < Completes
    BY <1>1 DEF Complete
  <2>2. call' \in Calls /\ call'.n > 0
    BY <1>0, <2>1, StartTyped DEF Calls
  <2> QED BY <1>1, <2>1, <2>2, FreshTyped, FreshGathered
          DEF Complete, ApiInv, ApiTyped, InPosition, NotedOnce, SentAfresh, Positive
<1>2. CASE Breaks
  <2>1. call.pc # "idle" /\ latch' = latch /\ notes' = notes
    BY <1>2 DEF Breaks
  <2> QED BY <1>2, <2>1, ReturnsKeeps, AgainKeeps DEF Breaks
<1>3. CASE NextAttempt
  <2>1. call.n > 0 /\ call.attempt < Attempts
    BY <1>3 DEF NextAttempt, CallAt, ApiInv, Positive
  <2>2. call' = [pc |-> "send", n |-> call.n, attempt |-> call.attempt + 1, pos |-> AtStart]
    BY <1>0, <1>3 DEF NextAttempt, Calls
  <2>3. call' \in Calls
    BY <1>0, <2>1, <2>2, StartTyped DEF Calls
  <2> QED BY <1>0, <1>3, <2>1, <2>2, <2>3, FreshTyped, FreshGathered
          DEF NextAttempt, ApiInv, ApiTyped, InPosition, NotedOnce, SentAfresh, Positive, Calls
<1>4. CASE Downgrade
  <2>1. call.pc # "idle" /\ notes' = notes /\ latch' \in {latch, "pending"}
        /\ (latch' # latch => latch = "fresh")
    BY <1>4 DEF Downgrade, CallAt, Latched
  <2> QED BY <1>4, <2>1, ReturnsKeeps DEF Downgrade
<1>5. CASE StreamOpens
  <2>1. call' = [call EXCEPT !.pc = "body"] /\ call.pc = "send"
    BY <1>5 DEF StreamOpens, CallAt
  <2>2. call' \in Calls /\ call'.pc = "body" /\ call'.n = call.n /\ call'.attempt = call.attempt
        /\ call'.pos = call.pos
    BY <1>0, <2>1 DEF Calls
  <2> QED BY <1>5, <2>1, <2>2
          DEF StreamOpens, ApiInv, ApiTyped, InPosition, NotedOnce, SentAfresh, Positive
<1>6. CASE StreamEvent
  <2>1. call' = [call EXCEPT !.pos = After(call.pos)] /\ acc' = Applied(acc, call.pos)
        /\ call.pc = "body" /\ ~AtEnd(call.pos)
    BY <1>6 DEF StreamEvent, CallAt
  <2>2. call.pos \in Positions
    BY <1>0 DEF Calls
  <2>3. After(call.pos) \in Positions
    BY <2>1, <2>2, AfterIsPosition
  <2>4. call' \in Calls /\ call'.pc = "body" /\ call'.n = call.n /\ call'.attempt = call.attempt
        /\ call'.pos = After(call.pos)
    BY <1>0, <2>1, <2>3 DEF Calls
  <2>5. acc.error = "none" => Gathered(acc, call.pos)
    BY <2>1 DEF ApiInv, InPosition
  <2>6. /\ acc' \in Accumulators /\ Len(acc'.blocks) <= Blocks
        /\ acc'.error = "none" => Gathered(acc', After(call.pos))
    BY <1>0, <2>1, <2>2, <2>5, EventIsGathered DEF ApiInv, ApiTyped
  <2> QED BY <1>6, <2>1, <2>4, <2>6
          DEF StreamEvent, ApiInv, ApiTyped, InPosition, NotedOnce, SentAfresh, Positive
<1>7. CASE StreamError
  <2>1. PICK e \in {"retryable", "malformed"} : acc' = [acc EXCEPT !.error = e]
    BY <1>7 DEF StreamError
  <2>2. acc' \in Accumulators /\ acc'.error # "none" /\ acc'.blocks = acc.blocks
    BY <1>0, <2>1 DEF Accumulators
  <2> QED BY <1>7, <2>2
          DEF StreamError, CallAt, ApiInv, ApiTyped, InPosition, NotedOnce, SentAfresh, Positive
<1>8. CASE finish
  <2>1. call.pc = "body" /\ latch' = latch /\ notes' = notes
    BY <1>8 DEF finish, CallAt
  <2>2. CASE acc.error = "none" /\ ~Truncated /\ Returns(acc.blocks)
    <3>1. Gathered(acc, call.pos) /\ acc.stop /\ call.pos \in Positions
      BY <1>0, <2>1, <2>2 DEF ApiInv, InPosition, Truncated, Calls
    <3>2. acc.blocks = Whole
      BY <1>0, <3>1, EndIsWhole
    <3> QED BY <2>1, <2>2, <3>2, ReturnsKeeps
  <2>3. CASE Returns(NoReply)
    BY <2>1, <2>3, ReturnsKeeps
  <2>4. CASE Again
    BY <2>1, <2>4, AgainKeeps
  <2> QED BY <1>8, <2>2, <2>3, <2>4 DEF finish
<1>9. CASE take_stream_fallback
  BY <1>9 DEF take_stream_fallback, CallAt, ApiInv, ApiTyped, InPosition, NotedOnce, SentAfresh,
     Positive, Calls
<1>10. CASE UNCHANGED apiVars
  BY <1>10 DEF apiVars, ApiInv, ApiTyped, InPosition, NotedOnce, SentAfresh, Positive
<1> QED BY <1>1, <1>2, <1>3, <1>4, <1>5, <1>6, <1>7, <1>8, <1>9, <1>10 DEF ApiNext

LEMMA ApiInvariant == Spec => []ApiInv
<1>1. Init => ApiInv
  BY ApiInitially DEF Init
<1>2. ApiInv /\ [Next]_vars => ApiInv'
  BY StepOfPart, ApiStep
<1> QED BY <1>1, <1>2, PTL DEF Spec

\* What a call of the Messages API returns is nothing, or the whole reply of one
\* attempt, wherever its stream stops, breaks or fails and however often it is
\* tried again (api.rs); and a run notes once that streaming was refused.
THEOREM ReplyComesWhole == Spec => []ReplyIsWhole
<1>1. ApiInv => ReplyIsWhole
  BY DEF ApiInv, NotedOnce, ReplyIsWhole
<1> QED BY <1>1, ApiInvariant, PTL

-----------------------------------------------------------------------------
(* McpHttp.  A request has one chance to be executed: it lies with the     *)
(* server, or with a worker that was left behind, or with the one that     *)
(* connects, or it has been executed.                                      *)

Messages == [pc : {"idle", "connect", "head", "sse", "json"}, id : 0..HttpCalls, tries : 0..Retries]
Endings  == [how : {"answered", "failed", "down"}, id : 0..HttpCalls]
Managers == [pc : {"off", "connect", "open", "backoff", "over"},
             last : 0..HttpEvents, cursor : 0..HttpEvents, half : 0..HttpEvents]

HttpTyped ==
    /\ phase \in {"initialize", "initialized", "tools/list", "up", "failed", "gone"}
    /\ post \in Messages /\ lastId \in 0..HttpCalls
    /\ usable \in BOOLEAN /\ shutdown \in BOOLEAN /\ ends \in Seq(Endings)
    /\ line \in Lines \cup {NoLine} /\ strays \subseteq Posts
    /\ arrived \in [Posts -> Nat] /\ executed \in [Posts -> Nat]
    /\ listen \in Managers /\ said \in 0..HttpEvents /\ handled \in Seq(1..HttpEvents)

One(b)     == IF b THEN 1 ELSE 0
Chances(i) == executed[i] + arrived[i] + One(i \in strays) + One(PostAt("connect") /\ post.id = i)

\* Requests get their numbers one after the other, and end in that order.
InTurn ==
    /\ post.id # 0 => post.pc # "idle" /\ post.id = lastId /\ Len(ends) = lastId - 1
    /\ post.id = 0 => Len(ends) = lastId
    /\ post.pc # "idle" => phase \in {"initialize", "initialized", "tools/list", "up"}
    /\ \A i \in Posts : i > lastId => Chances(i) = 0

OneChance == \A i \in Posts : Chances(i) <= 1

\* Only what was executed is answered.
Answered ==
    /\ line.kind = "answer" => executed[line.id] > 0
    /\ \A i \in DOMAIN ends :
          ends[i].how = "answered" => i \in Posts /\ ends[i].id = i /\ executed[i] > 0

\* Once an event was handled, the stream goes on after it.
Resumed ==
    /\ handled = <<>> => listen.last = 0
    /\ handled # <<>> => listen.last = handled[Len(handled)]
    /\ listen.pc = "open" => /\ listen.half \in {0, listen.cursor + 1}
                             /\ listen.last # 0 => listen.cursor = listen.last
    /\ \A k \in DOMAIN handled : k > 1 => handled[k] = handled[k - 1] + 1

HttpInv == HttpTyped /\ InTurn /\ OneChance /\ Answered /\ Resumed

LEMMA HttpConstants == HttpCalls \in Nat /\ HttpEvents \in Nat /\ Retries = 3
  BY HttpAssumption DEF Retries

LEMMA LinesTyped ==
  ASSUME NEW l \in Lines \cup {NoLine}
  PROVE  l.kind = "answer" => l.id \in Posts
BY DEF Lines, NoLine

LEMMA HttpInitially == HttpInit => HttpInv
<1> SUFFICES ASSUME HttpInit PROVE HttpInv
  OBVIOUS
<1> USE HttpConstants
<1>0. Idling \in Messages /\ ClosedGet \in Managers
  BY DEF Idling, Messages, ClosedGet, Managers
<1>1. HttpTyped
  <2>1. lastId \in 0..HttpCalls /\ said \in 0..HttpEvents
    BY DEF HttpInit
  <2>4. usable \in BOOLEAN /\ shutdown \in BOOLEAN
    BY DEF HttpInit
  <2>3. ends \in Seq(Endings) /\ handled \in Seq(1..HttpEvents)
    BY DEF HttpInit
  <2>2. arrived \in [Posts -> Nat] /\ executed \in [Posts -> Nat]
    BY DEF HttpInit
  <2> QED BY <1>0, <2>1, <2>2, <2>3, <2>4 DEF HttpInit, HttpTyped
<1>2. \A i \in Posts : Chances(i) = 0
  BY DEF HttpInit, Chances, One, PostAt, Idling
<1> QED BY <1>1, <1>2
        DEF HttpInit, HttpInv, InTurn, OneChance, Answered, Resumed, Idling, ClosedGet, NoLine

\* A message that is over, however it ended.
LEMMA OverKeeps ==
  ASSUME HttpInv, NEW how \in {"answered", "failed", "down"}, NEW id \in 0..HttpCalls, Over(how, id),
         post.pc # "idle", how = "answered" /\ post.id # 0 => id = post.id /\ executed[id] > 0,
         UNCHANGED <<lastId, arrived, executed, said, handled, shutdown>>, usable' \in BOOLEAN,
         \/ strays' = strays
         \/ PostAt("connect") /\ post.id # 0 /\ strays' = strays \cup {post.id}
  PROVE  HttpInv'
<1> USE HttpConstants
<1>1. post' = Idling /\ line' = NoLine /\ Idling.pc = "idle" /\ Idling.id = 0 /\ NoLine.kind = "none"
  BY DEF Over, Idling, NoLine
<1>2. phase' \in {"initialize", "initialized", "tools/list", "up", "failed"}
  BY DEF Over, HttpInv, InTurn
<1>3. listen' \in {listen, [listen EXCEPT !.pc = "connect"]}
  BY DEF Over
<1>4. listen' \in Managers /\ listen'.last = listen.last /\ (listen' = listen \/ listen'.pc = "connect")
  BY <1>3 DEF HttpInv, HttpTyped, Managers
<1>5. post \in Messages /\ lastId \in 0..HttpCalls /\ ends \in Seq(Endings)
  BY DEF HttpInv, HttpTyped
<1>6. ends' = IF post.id = 0 THEN ends ELSE Append(ends, [how |-> how, id |-> id])
  BY DEF Over
<1>7. [how |-> how, id |-> id] \in Endings
  BY DEF Endings
<1>8. ends' \in Seq(Endings)
  BY <1>5, <1>6, <1>7
<1>9. Len(ends') = lastId
  BY <1>5, <1>6, <1>7 DEF HttpInv, InTurn
<1>10. strays' \subseteq Posts
  <2>1. strays \subseteq Posts /\ (post.id # 0 => post.id \in Posts)
    BY <1>5 DEF HttpInv, HttpTyped, Messages, Posts
  <2> QED BY <2>1
<1>11. HttpTyped'
  BY <1>1, <1>2, <1>4, <1>8, <1>10 DEF HttpInv, HttpTyped, Messages, Idling
<1>12. ASSUME NEW i \in Posts PROVE Chances(i)' <= Chances(i)
  <2>1. executed[i] \in Nat /\ arrived[i] \in Nat
    BY DEF HttpInv, HttpTyped
  <2> QED BY <1>1, <2>1 DEF Chances, One, PostAt
<1>13. ASSUME NEW i \in Posts PROVE Chances(i)' \in Nat
  BY <1>1 DEF Chances, One, PostAt, HttpInv, HttpTyped
<1>14. ASSUME NEW i \in Posts PROVE Chances(i) \in Nat
  BY DEF Chances, One, PostAt, HttpInv, HttpTyped
<1>15. InTurn'
  BY <1>1, <1>2, <1>9, <1>12, <1>13, <1>14 DEF HttpInv, InTurn
<1>16. OneChance'
  BY <1>12, <1>13, <1>14 DEF HttpInv, OneChance
<1>17. ASSUME NEW i \in DOMAIN ends', ends'[i].how = "answered"
       PROVE  i \in Posts /\ ends'[i].id = i /\ executed'[i] > 0
  <2>1. CASE i \in DOMAIN ends
    <3>1. ends'[i] = ends[i]
      BY <1>5, <1>6, <1>7, <2>1
    <3> QED BY <1>17, <2>1, <3>1 DEF HttpInv, Answered
  <2>2. CASE i \notin DOMAIN ends
    <3>1. post.id # 0 /\ i = Len(ends) + 1 /\ ends'[i] = [how |-> how, id |-> id]
      BY <1>5, <1>6, <1>7, <2>2
    <3>2. i = post.id /\ id = post.id
      BY <1>5, <1>17, <3>1 DEF HttpInv, InTurn
    <3> QED BY <1>5, <1>17, <3>1, <3>2 DEF Posts, Messages
  <2> QED BY <2>1, <2>2
<1>18. Answered'
  BY <1>1, <1>17 DEF Answered
<1>19. Resumed'
  BY <1>4 DEF HttpInv, Resumed
<1> QED BY <1>11, <1>15, <1>16, <1>18, <1>19 DEF HttpInv

LEMMA ChancesCount ==
  ASSUME HttpTyped, NEW i \in Posts
  PROVE  Chances(i) \in Nat /\ executed[i] \in Nat /\ arrived[i] \in Nat
BY DEF HttpTyped, Chances, One

\* A step of the POST thread or of the server that ends no message and leaves
\* the GET stream alone.
LEMMA PostKeeps ==
  ASSUME HttpInv, HttpTyped', UNCHANGED <<ends, listenVars, lastId, phase>>,
         post'.id = post.id, post'.pc # "idle" <=> post.pc # "idle",
         \A i \in Posts : executed'[i] >= executed[i] /\ Chances(i)' <= Chances(i),
         line'.kind = "answer" => executed'[line'.id] > 0
  PROVE  HttpInv'
<1>1. ASSUME NEW i \in Posts
      PROVE  /\ Chances(i) \in Nat /\ Chances(i)' \in Nat
             /\ executed[i] \in Nat /\ executed'[i] \in Nat
  <2>1. executed[i] \in Nat /\ Chances(i) \in Nat
    BY ChancesCount DEF HttpInv
  <2>2. executed'[i] \in Nat /\ arrived'[i] \in Nat
    BY DEF HttpTyped
  <2>3. Chances(i)' \in Nat
    BY <2>2 DEF Chances, One
  <2> QED BY <2>1, <2>2, <2>3
<1>2. InTurn'
  BY <1>1 DEF HttpInv, InTurn
<1>3. OneChance'
  BY <1>1 DEF HttpInv, OneChance
<1>4. Answered'
  BY <1>1 DEF HttpInv, Answered
<1>5. Resumed'
  BY DEF HttpInv, Resumed, listenVars
<1> QED BY <1>2, <1>3, <1>4, <1>5 DEF HttpInv

\* A step of the GET stream.
LEMMA ListenKeeps ==
  ASSUME HttpInv, UNCHANGED postVars, listen' \in Managers, said' \in 0..HttpEvents,
         handled' \in Seq(1..HttpEvents), shutdown' \in BOOLEAN, Resumed'
  PROVE  HttpInv'
<1>1. HttpTyped'
  BY DEF HttpInv, HttpTyped, postVars
<1>2. \A i : Chances(i)' = Chances(i)
  BY DEF Chances, One, PostAt, postVars
<1> QED BY <1>1, <1>2 DEF HttpInv, InTurn, OneChance, Answered, postVars

LEMMA BeginKeeps ==
  ASSUME HttpInv, PostAt("idle"), NEW i \in 0..HttpCalls, Begin(i),
         lastId' = IF i = 0 THEN lastId ELSE i, i \in {0, lastId + 1},
         phase \in {"initialize", "initialized", "tools/list", "up"},
         UNCHANGED <<phase, ends, usable, strays, arrived, executed, listenVars, shutdown>>
  PROVE  HttpInv'
<1> USE HttpConstants
<1>1. post' = [pc |-> "connect", id |-> i, tries |-> 0] /\ line' = NoLine /\ post.pc = "idle"
  BY DEF Begin, PostAt
<1>2. post' \in Messages
  BY <1>1 DEF Messages
<1>3. post \in Messages /\ lastId \in 0..HttpCalls /\ lastId' \in 0..HttpCalls
      /\ Len(ends) = lastId /\ post.id = 0
  BY <1>1 DEF HttpInv, HttpTyped, InTurn
<1>4. HttpTyped'
  BY <1>1, <1>2, <1>3 DEF HttpInv, HttpTyped, listenVars
<1>5. ASSUME NEW j \in Posts
      PROVE  Chances(j)' = IF j = i THEN Chances(j) + 1 ELSE Chances(j)
  BY <1>1, ChancesCount DEF HttpInv, Chances, One, PostAt
<1>6. i \in Posts => Chances(i) = 0
  BY <1>3 DEF HttpInv, InTurn, Posts
<1>7. InTurn'
  BY <1>1, <1>3, <1>5 DEF HttpInv, InTurn, Posts
<1>8. OneChance'
  BY <1>5, <1>6 DEF HttpInv, OneChance
<1>9. Answered' /\ Resumed'
  BY <1>1 DEF HttpInv, Answered, Resumed, NoLine, listenVars
<1> QED BY <1>4, <1>7, <1>8, <1>9 DEF HttpInv

LEMMA HttpStep == HttpInv /\ [HttpNext]_httpVars => HttpInv'
<1> SUFFICES ASSUME HttpInv, [HttpNext]_httpVars PROVE HttpInv'
  OBVIOUS
<1> USE HttpConstants
<1>0. /\ HttpTyped /\ post \in Messages /\ lastId \in 0..HttpCalls /\ listen \in Managers
      /\ arrived \in [Posts -> Nat] /\ executed \in [Posts -> Nat] /\ strays \subseteq Posts
      /\ said \in 0..HttpEvents /\ handled \in Seq(1..HttpEvents)
      /\ usable \in BOOLEAN /\ shutdown \in BOOLEAN
      /\ line \in Lines \cup {NoLine}
  BY DEF HttpInv, HttpTyped
<1>1. CASE PostRequest
  <2>1. lastId + 1 \in 0..HttpCalls /\ lastId + 1 # 0
    BY <1>0, <1>1 DEF PostRequest
  <2> QED BY <1>1, <2>1, BeginKeeps DEF PostRequest
<1>2. CASE PostInitialized
  <2>0. PICK z : z = 0
    OBVIOUS
  <2>1. /\ z \in 0..HttpCalls /\ PostAt("idle") /\ Begin(z) /\ z = 0 /\ lastId' = lastId
        /\ phase \in {"initialize", "initialized", "tools/list", "up"}
        /\ UNCHANGED <<phase, ends, usable, strays, arrived, executed, listenVars, shutdown>>
    BY <1>2, <2>0 DEF PostInitialized
  <2> QED BY <2>1, BeginKeeps
<1>3. CASE ConnectFails
  <2>1. CASE post.tries < Retries
    <3>1. post' = [post EXCEPT !.tries = post.tries + 1]
      BY <1>3, <2>1 DEF ConnectFails
    <3>2. post' \in Messages /\ post'.id = post.id /\ post'.pc = post.pc
      BY <1>0, <2>1, <3>1 DEF Messages
    <3>3. UNCHANGED <<phase, ends, usable, line, listen, lastId, strays, arrived, executed,
                      said, handled, shutdown>>
      BY <1>3, <2>1 DEF ConnectFails
    <3>4. HttpTyped' /\ \A i : Chances(i)' = Chances(i)
      BY <3>2, <3>3 DEF HttpInv, HttpTyped, Chances, One, PostAt
    <3> QED BY <1>0, <3>2, <3>3, <3>4, PostKeeps, ChancesCount DEF listenVars, HttpInv, Answered
  <2>2. CASE ~(post.tries < Retries)
    <3>1. Over("down", 0) /\ usable' = FALSE /\ post.pc # "idle" /\ 0 \in 0..HttpCalls
      BY <1>3, <2>2 DEF ConnectFails, PostAt
    <3> QED BY <1>3, <3>1, OverKeeps DEF ConnectFails
  <2> QED BY <2>1, <2>2
<1>4. CASE Reaches
  <2>1. /\ post' = [post EXCEPT !.pc = "head"] /\ arrived' = Copies(arrived, post.id)
        /\ post.pc = "connect"
        /\ UNCHANGED <<phase, lastId, ends, usable, line, strays, executed, listenVars, shutdown>>
    BY <1>4 DEF Reaches, PostAt
  <2>2. post' \in Messages /\ post'.id = post.id /\ post'.pc = "head"
    BY <1>0, <2>1 DEF Messages
  <2>3. post.id \in {0} \cup Posts
    BY <1>0 DEF Messages, Posts
  <2>4. /\ arrived' \in [Posts -> Nat]
        /\ \A i \in Posts : arrived'[i] = arrived[i] + One(i = post.id)
    BY <1>0, <2>1, <2>3, SMTT(30) DEF Copies, One, Posts
  <2>5. HttpTyped'
    BY <2>1, <2>2, <2>4 DEF HttpInv, HttpTyped, listenVars
  <2>6. ASSUME NEW i \in Posts PROVE Chances(i)' = Chances(i) /\ executed'[i] = executed[i]
    BY <1>0, <2>1, <2>2, <2>4 DEF Chances, One, PostAt
  <2> QED BY <1>0, <2>1, <2>2, <2>5, <2>6, PostKeeps, ChancesCount DEF HttpInv, Answered
<1>5. CASE HeadLate
  <2>1. Over("failed", 0) /\ post.pc # "idle" /\ 0 \in 0..HttpCalls /\ usable' = usable
    BY <1>5 DEF HeadLate
  <2> QED BY <1>0, <1>5, <2>1, OverKeeps DEF HeadLate
<1>6. CASE StrayReaches
  <2>1. PICK i \in strays : strays' = strays \ {i} /\ arrived' = Copies(arrived, i)
    BY <1>6 DEF StrayReaches
  <2>2. i \in Posts /\ i # 0
    BY <1>0 DEF Posts
  <2>3. UNCHANGED <<phase, post, lastId, ends, usable, line, executed, listenVars, shutdown>>
    BY <1>6 DEF StrayReaches
  <2>4. /\ arrived' \in [Posts -> Nat]
        /\ \A j \in Posts : arrived'[j] = arrived[j] + One(j = i)
    BY <1>0, <2>1, <2>2 DEF Copies, One
  <2>5. HttpTyped'
    BY <1>0, <2>1, <2>3, <2>4 DEF HttpInv, HttpTyped, listenVars
  <2>6. ASSUME NEW j \in Posts PROVE Chances(j)' = Chances(j) /\ executed'[j] = executed[j]
    <3>1. executed' = executed /\ One(PostAt("connect") /\ post.id = j)' = One(PostAt("connect") /\ post.id = j)
      BY <2>3 DEF One, PostAt
    <3>2. CASE j = i
      <4>1. One(j \in strays) = 1 /\ One(j \in strays)' = 0 /\ arrived'[j] = arrived[j] + 1
        BY <2>1, <2>4, <3>2 DEF One
      <4> QED BY <1>0, <3>1, <4>1 DEF Chances, One
    <3>3. CASE j # i
      <4>1. One(j \in strays)' = One(j \in strays) /\ arrived'[j] = arrived[j]
        BY <1>0, <2>1, <2>4, <3>3 DEF One
      <4> QED BY <1>0, <3>1, <4>1 DEF Chances
    <3> QED BY <3>2, <3>3
  <2> QED BY <1>0, <2>3, <2>5, <2>6, PostKeeps, ChancesCount DEF HttpInv, Answered
<1>7. CASE Fails
  <2>1. Over("failed", 0) /\ post.pc # "idle" /\ 0 \in 0..HttpCalls /\ usable' = usable
    BY <1>7 DEF Fails
  <2> QED BY <1>0, <1>7, <2>1, OverKeeps DEF Fails
<1>8. CASE HeadComes
  <2>1. CASE post.id = 0
    <3>1. Over("answered", 0) /\ post.pc # "idle" /\ 0 \in 0..HttpCalls /\ usable' = usable
      BY <1>8, <2>1 DEF HeadComes, PostAt
    <3> QED BY <1>0, <1>8, <2>1, <3>1, OverKeeps DEF HeadComes
  <2>2. CASE post.id # 0
    <3>1. PICK b \in {"sse", "json"} : post' = [post EXCEPT !.pc = b]
      BY <1>8, <2>2 DEF HeadComes
    <3>2. post' \in Messages /\ post'.id = post.id /\ post'.pc = b /\ post.pc = "head"
      BY <1>0, <1>8, <3>1 DEF Messages, HeadComes, PostAt
    <3>3. UNCHANGED <<phase, ends, usable, line, listen, lastId, strays, arrived, executed,
                      said, handled, shutdown>>
      BY <1>8, <2>2 DEF HeadComes
    <3>4. HttpTyped' /\ \A i : Chances(i)' = Chances(i)
      BY <3>2, <3>3 DEF HttpInv, HttpTyped, Chances, One, PostAt
    <3> QED BY <1>0, <3>2, <3>3, <3>4, PostKeeps, ChancesCount DEF listenVars, HttpInv, Answered
  <2> QED BY <2>1, <2>2
<1>9. CASE BodyLate
  <2>1. Over("failed", 0) /\ post.pc # "idle" /\ 0 \in 0..HttpCalls /\ usable' = usable
    BY <1>9 DEF BodyLate
  <2> QED BY <1>0, <1>9, <2>1, OverKeeps DEF BodyLate
<1>10. CASE BodyLine
  <2>0. post.pc # "idle" /\ 0 \in 0..HttpCalls /\ usable' = usable /\ strays' = strays
    BY <1>10 DEF BodyLine
  <2>1. CASE Answers
    <3>1. Over("answered", line.id) /\ line.id = post.id /\ line.id \in 0..HttpCalls
          /\ executed[line.id] > 0
      BY <1>0, <1>10, <2>1 DEF BodyLine, Answers, Messages, HttpInv, Answered
    <3> QED BY <1>0, <1>10, <2>0, <3>1, OverKeeps DEF BodyLine
  <2>2. CASE Over("failed", 0)
    BY <1>0, <1>10, <2>0, <2>2, OverKeeps DEF BodyLine
  <2>3. CASE line' = NoLine /\ UNCHANGED <<phase, post, ends, listen>>
    <3>1. UNCHANGED <<phase, post, ends, usable, listen, lastId, strays, arrived, executed,
                      said, handled, shutdown>>
      BY <1>10, <2>3 DEF BodyLine
    <3>2. HttpTyped' /\ \A i : Chances(i)' = Chances(i)
      BY <2>3, <3>1 DEF HttpInv, HttpTyped, Chances, One, PostAt
    <3>3. line'.kind # "answer"
      BY <2>3 DEF NoLine
    <3> QED BY <1>0, <3>1, <3>2, <3>3, PostKeeps, ChancesCount DEF listenVars
  <2> QED BY <1>10, <2>1, <2>2, <2>3 DEF BodyLine
<1>11. CASE Executes
  <2>1. PICK i \in Posts : /\ arrived[i] > 0
                           /\ arrived' = [arrived EXCEPT ![i] = arrived[i] - 1]
                           /\ executed' = [executed EXCEPT ![i] = executed[i] + 1]
    BY <1>11 DEF Executes
  <2>2. UNCHANGED <<phase, post, lastId, ends, usable, line, strays, listenVars, shutdown>>
    BY <1>11 DEF Executes
  <2>3. arrived' \in [Posts -> Nat] /\ executed' \in [Posts -> Nat]
    BY <1>0, <2>1
  <2>4. HttpTyped'
    BY <2>2, <2>3 DEF HttpInv, HttpTyped, listenVars
  <2>5. ASSUME NEW j \in Posts PROVE Chances(j)' = Chances(j) /\ executed'[j] >= executed[j]
    BY <1>0, <2>1, <2>2 DEF Chances, One, PostAt
  <2>6. ASSUME line'.kind = "answer" PROVE executed'[line'.id] > 0
    <3>1. line.id \in Posts /\ executed[line.id] > 0
      BY <1>0, <2>2, <2>6, LinesTyped DEF HttpInv, Answered
    <3> QED BY <1>0, <2>2, <2>3, <2>5, <3>1
  <2> QED BY <1>0, <2>2, <2>4, <2>5, <2>6, PostKeeps, ChancesCount
<1>12. CASE Responds
  <2>1. PICK l \in Lines : (l.kind = "answer" => executed[l.id] > 0) /\ line' = l
    BY <1>12 DEF Responds
  <2>2. UNCHANGED <<phase, post, lastId, ends, usable, strays, arrived, executed, listenVars, shutdown>>
    BY <1>12 DEF Responds
  <2>3. HttpTyped' /\ \A i : Chances(i)' = Chances(i)
    BY <2>1, <2>2 DEF HttpInv, HttpTyped, listenVars, Chances, One, PostAt
  <2> QED BY <1>0, <2>1, <2>2, <2>3, PostKeeps, ChancesCount
<1>13. CASE GetOpens
  <2>1. listen' = [listen EXCEPT !.pc = "open", !.half = 0,
                     !.cursor = IF listen.last = 0 THEN said ELSE listen.last]
    BY <1>13 DEF GetOpens
  <2>2. listen' = [pc |-> "open", last |-> listen.last, half |-> 0,
                   cursor |-> IF listen.last = 0 THEN said ELSE listen.last]
    BY <1>0, <2>1 DEF Managers
  <2>3. listen' \in Managers
    BY <1>0, <2>2 DEF Managers
  <2>4. Resumed'
    BY <1>13, <2>2 DEF GetOpens, HttpInv, Resumed
  <2> QED BY <1>0, <1>13, <2>3, <2>4, ListenKeeps DEF GetOpens
<1>14. CASE GetFails \/ GetNotOffered \/ Reconnects \/ ListenQuits
  <2>1. PICK pc \in {"backoff", "over", "connect"} : listen' = [listen EXCEPT !.pc = pc]
    BY <1>14 DEF GetFails, GetNotOffered, Reconnects, ListenQuits
  <2>2. listen' \in Managers /\ listen'.pc # "open" /\ listen'.last = listen.last
    BY <1>0, <2>1 DEF Managers
  <2>3. UNCHANGED <<postVars, said, handled, shutdown>>
    BY <1>14 DEF GetFails, GetNotOffered, Reconnects, ListenQuits
  <2>4. Resumed'
    BY <2>2, <2>3 DEF HttpInv, Resumed
  <2> QED BY <1>0, <2>2, <2>3, <2>4, ListenKeeps
<1>15. CASE ServerSays
  <2>1. said' \in 0..HttpEvents /\ UNCHANGED <<postVars, listen, handled, shutdown>>
    BY <1>0, <1>15 DEF ServerSays
  <2>2. Resumed'
    BY <2>1 DEF HttpInv, Resumed
  <2> QED BY <1>0, <2>1, <2>2, ListenKeeps
<1>16. CASE EventLine
  <2>1. listen' = [listen EXCEPT !.half = listen.cursor + 1] /\ listen.cursor < said
        /\ UNCHANGED <<postVars, said, handled, shutdown>>
    BY <1>16 DEF EventLine
  <2>2. listen' = [pc |-> listen.pc, last |-> listen.last, cursor |-> listen.cursor,
                   half |-> listen.cursor + 1]
    BY <1>0, <2>1 DEF Managers
  <2>3. listen' \in Managers
    <3>1. listen.cursor + 1 \in 0..HttpEvents
      BY <1>0, <2>1 DEF Managers
    <3> QED BY <1>0, <2>2, <3>1 DEF Managers
  <2>4. Resumed'
    BY <2>1, <2>2 DEF HttpInv, Resumed
  <2> QED BY <1>0, <2>1, <2>3, <2>4, ListenKeeps
<1>17. CASE EventEnds
  <2>1. /\ listen.pc = "open" /\ listen.half # 0 /\ handled' = Append(handled, listen.half)
        /\ listen' = [listen EXCEPT !.last = listen.half, !.half = 0, !.cursor = listen.half]
        /\ UNCHANGED <<postVars, said, shutdown>>
    BY <1>17 DEF EventEnds
  <2>2. listen' = [pc |-> listen.pc, last |-> listen.half, cursor |-> listen.half, half |-> 0]
    BY <1>0, <2>1 DEF Managers
  <2>3. listen' \in Managers /\ listen.half \in 1..HttpEvents
    BY <1>0, <2>1, <2>2 DEF Managers
  <2>4. /\ handled' \in Seq(1..HttpEvents) /\ Len(handled') = Len(handled) + 1
        /\ handled'[Len(handled')] = listen.half
        /\ \A k \in 1..Len(handled) : handled'[k] = handled[k]
    BY <1>0, <2>1, <2>3
  <2>5. handled # <<>> => listen.half = handled[Len(handled)] + 1
    <3>1. ASSUME handled # <<>> PROVE listen.half = handled[Len(handled)] + 1
      <4>1. Len(handled) \in 1..Len(handled) /\ handled[Len(handled)] \in 1..HttpEvents
        BY <1>0, <3>1
      <4>2. listen.last = handled[Len(handled)] /\ listen.last # 0
        BY <3>1, <4>1 DEF HttpInv, Resumed
      <4> QED BY <2>1, <4>2 DEF HttpInv, Resumed
    <3> QED BY <3>1
  <2>6. ASSUME NEW k \in DOMAIN handled', k > 1 PROVE handled'[k] = handled'[k - 1] + 1
    <3>1. CASE k <= Len(handled)
      <4>1. k \in 1..Len(handled) /\ k - 1 \in 1..Len(handled)
        BY <1>0, <2>4, <2>6, <3>1
      <4>2. handled[k] = handled[k - 1] + 1
        BY <1>0, <2>6, <4>1 DEF HttpInv, Resumed
      <4> QED BY <2>4, <4>1, <4>2
    <3>2. CASE ~(k <= Len(handled))
      <4>1. k = Len(handled) + 1 /\ k - 1 = Len(handled) /\ k - 1 \in 1..Len(handled)
        BY <1>0, <2>4, <2>6, <3>2
      <4>2. handled # <<>>
        BY <1>0, <4>1
      <4>3. handled'[k - 1] = handled[Len(handled)] /\ handled'[k] = listen.half
        BY <2>4, <4>1
      <4> QED BY <2>5, <4>2, <4>3
    <3> QED BY <3>1, <3>2
  <2>7. handled' # <<>>
    BY <1>0, <2>4
  <2>8. Resumed'
    BY <2>1, <2>2, <2>4, <2>6, <2>7 DEF Resumed
  <2> QED BY <1>0, <2>1, <2>3, <2>4, <2>8, ListenKeeps
<1>18. CASE HttpDrop
  <2>1. /\ post.pc = "idle" /\ phase' = "gone" /\ shutdown' = TRUE
        /\ UNCHANGED <<post, lastId, ends, usable, line, strays, arrived, executed, listenVars>>
    BY <1>18 DEF HttpDrop, PostAt
  <2>2. HttpTyped' /\ \A i : Chances(i)' = Chances(i)
    BY <2>1 DEF HttpInv, HttpTyped, listenVars, Chances, One, PostAt
  <2> QED BY <2>1, <2>2 DEF HttpInv, InTurn, OneChance, Answered, Resumed, listenVars
<1>19. CASE UNCHANGED httpVars
  <2>1. \A i : Chances(i)' = Chances(i)
    BY <1>19 DEF httpVars, Chances, One, PostAt
  <2> QED BY <1>19, <2>1 DEF httpVars, HttpInv, HttpTyped, InTurn, OneChance, Answered, Resumed
<1> QED BY <1>1, <1>2, <1>3, <1>4, <1>5, <1>6, <1>7, <1>8, <1>9, <1>10, <1>11, <1>12, <1>13,
           <1>14, <1>15, <1>16, <1>17, <1>18, <1>19 DEF HttpNext

LEMMA HttpInvariant == Spec => []HttpInv
<1>1. Init => HttpInv
  BY HttpInitially DEF Init
<1>2. HttpInv /\ [Next]_vars => HttpInv'
  BY StepOfPart, HttpStep
<1> QED BY <1>1, <1>2, PTL DEF Spec

\* A request is executed once at the most, although connections are tried again
\* and workers are left behind; a call that returns an answer returns that of
\* its own request; and the events of the GET stream are handled in order, none
\* twice and none missing, however often it breaks (mcp_http.rs).
THEOREM NothingTwice == Spec => []HttpOnce
<1>1. HttpInv => HttpOnce
  <2> SUFFICES ASSUME HttpInv PROVE HttpOnce
    OBVIOUS
  <2>1. ASSUME NEW i \in Posts PROVE executed[i] + arrived[i] <= 1 /\ executed[i] \in Nat /\ arrived[i] \in Nat
    BY ChancesCount DEF HttpInv, OneChance, Chances, One
  <2> QED BY <2>1 DEF HttpInv, Answered, Resumed, HttpOnce
<1> QED BY <1>1, HttpInvariant, PTL

-----------------------------------------------------------------------------
(* McpStdio.  Of the requests sent only the last can be waited for, so     *)
(* what is pending is that one, and so is what lies in the inbox.          *)

Callers == [pc : {"idle", "lock", "write", "wait", "forget"}, line : ToServer \cup {Nothing}]
Outcomes == [how : {"answered", "down", "timeout"}, id : 0..StdioCalls]
Children == [alive : BOOLEAN, got : SUBSET Ids, line : FromServer \cup {Nothing}, said : 0..StdioLines,
             outside : BOOLEAN]

CallTyped ==
    /\ stage \in {"initialize", "initialized", "tools/list", "up", "failed", "gone"}
    /\ caller \in Callers /\ nextId \in 0..StdioCalls /\ pending \subseteq Ids
    /\ results \in Seq(Outcomes) /\ offers \in BOOLEAN

ChildTyped ==
    /\ inbox \in FromServer \cup {Nothing}
    /\ up \in BOOLEAN /\ reader \in [pc : {"read", "lock", "write", "over"}]
    /\ stdin \in {"free", "caller", "reader"}
    /\ toServer \in Seq(ToServer) /\ Len(toServer) <= StdioCap
    /\ toClient \in Seq(FromServer) /\ Len(toClient) <= StdioCap
    /\ server \in Children

Asks == caller.line.kind = "request"

\* The request under way is the last one; all before it have ended.
LastIsUnderWay ==
    /\ caller.pc = "idle" <=> caller.line = Nothing
    /\ caller.line \in {Nothing, Line("notice", 0)} \/ Asks
    /\ Asks => caller.line.id = nextId /\ nextId > 0 /\ Len(results) = nextId - 1
    /\ ~Asks => Len(results) = nextId /\ pending = {}
    /\ caller.pc \in {"wait", "forget"} => Asks

PendingIsOwn == pending \subseteq IF Asks THEN {caller.line.id} ELSE {}
InboxIsOwn   == Asks /\ inbox # Nothing => inbox.id = caller.line.id /\ pending = {}
ResultsAreOwn == \A i \in DOMAIN results : results[i].how = "answered" => results[i].id = i

StdioInv == CallTyped /\ ChildTyped /\ LastIsUnderWay /\ PendingIsOwn /\ InboxIsOwn /\ ResultsAreOwn

LEMMA StdioConstants ==
  StdioCap \in Nat \ {0} /\ StdioCalls \in Nat /\ StdioLines \in Nat
  BY StdioAssumption

LEMMA KindsOfLines ==
  /\ Nothing.kind = "nothing" /\ Line("notice", 0).kind = "notice" /\ Nothing # Line("notice", 0)
  /\ Line("notice", 0) \in ToServer /\ Line("refusal", 0) \in ToServer
  /\ \A m \in Methods, i \in Ids : Request(m, i) \in ToServer /\ Request(m, i).kind = "request"
                                   /\ Request(m, i).id = i
<1>1. ASSUME NEW m \in Methods, NEW i \in Ids
      PROVE  Request(m, i) \in ToServer /\ Request(m, i).kind = "request" /\ Request(m, i).id = i
  BY DEF ToServer, Request
<1>2. Line("notice", 0) \in ToServer /\ Line("refusal", 0) \in ToServer
  BY DEF ToServer
<1>3. /\ Nothing.kind = "nothing" /\ Line("notice", 0).kind = "notice" /\ Nothing # Line("notice", 0)
  BY DEF Nothing, Line
<1> QED BY <1>1, <1>2, <1>3

LEMMA ChildStep == StdioInv /\ [StdioNext]_stdioVars => ChildTyped'
<1> SUFFICES ASSUME StdioInv, [StdioNext]_stdioVars PROVE ChildTyped'
  OBVIOUS
<1> USE StdioConstants
<1>0. ChildTyped /\ CallTyped /\ LastIsUnderWay
  BY DEF StdioInv
<1>1. CASE Handshake \/ Call \/ Resources
  BY <1>0, <1>1 DEF Handshake, Call, Resources, Register, ChildTyped
<1>2. CASE Notify
  BY <1>0, <1>2 DEF Notify, ChildTyped
<1>3. CASE LockStdin
  BY <1>0, <1>3 DEF LockStdin, ChildTyped
<1>4. CASE Write
  <2>1. caller.line \in ToServer
    BY <1>0, <1>4 DEF Write, CallerAt, LastIsUnderWay, CallTyped, Callers
  <2>2. toServer' = Append(toServer, caller.line) /\ Len(toServer) < StdioCap /\ stdin' = "free"
        /\ UNCHANGED <<inbox, up, reader, toClient, server>>
    BY <1>4 DEF Write
  <2>3. toServer' \in Seq(ToServer) /\ Len(toServer') <= StdioCap
    BY <1>0, <2>1, <2>2 DEF ChildTyped
  <2> QED BY <1>0, <2>2, <2>3 DEF ChildTyped
<1>5. CASE WriteFails
  BY <1>0, <1>5 DEF WriteFails, ChildTyped
<1>6. CASE Receive \/ TimesOut \/ Forget
  BY <1>0, <1>6 DEF Receive, TimesOut, Forget, ChildTyped
<1>7. CASE ReadLine
  <2>1. /\ toClient # <<>> /\ toClient' = Tail(toClient)
        /\ inbox' \in {inbox, Head(toClient)} /\ reader' \in {reader, [pc |-> "lock"], [pc |-> "over"]}
        /\ up' \in BOOLEAN /\ UNCHANGED <<stdin, toServer, server>>
    BY <1>7 DEF ReadLine
  <2>2. Head(toClient) \in FromServer /\ toClient' \in Seq(FromServer) /\ Len(toClient') <= StdioCap
    BY <1>0, <2>1 DEF ChildTyped
  <2>3. reader' \in [pc : {"read", "lock", "write", "over"}]
    BY <1>0, <2>1 DEF ChildTyped
  <2> QED BY <1>0, <2>1, <2>2, <2>3 DEF ChildTyped
<1>8. CASE ReaderLocks
  BY <1>0, <1>8 DEF ReaderLocks, threads, ChildTyped
<1>9. CASE Refuses
  <2>1. toServer' = toServer \/ (Len(toServer) < StdioCap /\ toServer' = Append(toServer, Line("refusal", 0)))
    BY <1>9 DEF Refuses
  <2>2. toServer' \in Seq(ToServer) /\ Len(toServer') <= StdioCap
    BY <1>0, <2>1, KindsOfLines, SMTT(30) DEF ChildTyped
  <2> QED BY <1>0, <1>9, <2>2 DEF Refuses, threads, ChildTyped
<1>10. CASE ReaderEnds
  BY <1>0, <1>10 DEF ReaderEnds, threads, ChildTyped
<1>11. CASE ServerReads
  <2>1. /\ toServer # <<>> /\ toServer' = Tail(toServer)
        /\ LET m == Head(toServer)
           IN  server' = IF m.kind = "request"
                         THEN [server EXCEPT !.got = server.got \cup {m.id}] ELSE server
    BY <1>11 DEF ServerReads
  <2>2. Head(toServer) \in ToServer /\ toServer' \in Seq(ToServer) /\ Len(toServer') <= StdioCap
    BY <1>0, <2>1 DEF ChildTyped
  <2>3. Head(toServer).kind = "request" => Head(toServer).id \in Ids
    <3>1. ASSUME NEW m \in ToServer, m.kind = "request" PROVE m.id \in Ids
      <4>0. Line("notice", 0).kind = "notice" /\ Line("refusal", 0).kind = "refusal"
        BY DEF Line
      <4>1. m # Line("notice", 0) /\ m # Line("refusal", 0)
        BY <3>1, <4>0
      <4>2. PICK w \in Methods, i \in Ids : m = Request(w, i)
        BY <4>1 DEF ToServer
      <4> QED BY <4>2 DEF Request
    <3> QED BY <2>2, <3>1
  <2>4. server' \in Children
    BY <1>0, <2>1, <2>3 DEF ChildTyped, Children
  <2> QED BY <1>0, <1>11, <2>2, <2>4 DEF ServerReads, threads, ChildTyped
<1>12. CASE ServerSpeaks
  <2>1. PICK m \in FromServer : server' = [server EXCEPT !.line = m, !.said = server.said + 1]
    BY <1>12 DEF ServerSpeaks
  <2>2. server.said < StdioLines
    BY <1>12 DEF ServerSpeaks
  <2>3. server' = [alive |-> server.alive, got |-> server.got, line |-> m, said |-> server.said + 1,
                    outside |-> server.outside]
    BY <1>0, <2>1 DEF ChildTyped, Children
  <2>4. server' \in Children
    BY <1>0, <2>2, <2>3 DEF ChildTyped, Children
  <2> QED BY <1>0, <1>12, <2>4 DEF ServerSpeaks, threads, ChildTyped
<1>13. CASE ServerWrites
  <2>1. /\ \/ toClient' = toClient
           \/ toClient' = Append(toClient, server.line) /\ Len(toClient) < StdioCap
        /\ server.line # Nothing /\ server' = [server EXCEPT !.line = Nothing]
    BY <1>13 DEF ServerWrites
  <2>2. server.line \in FromServer /\ server' \in Children
    BY <1>0, <2>1 DEF ChildTyped, Children
  <2>3. toClient' \in Seq(FromServer) /\ Len(toClient') <= StdioCap
    BY <1>0, <2>1, <2>2 DEF ChildTyped
  <2> QED BY <1>0, <1>13, <2>2, <2>3 DEF ServerWrites, threads, ChildTyped
<1>14. CASE ServerDies \/ DropServer
  <2>1. server' = [server EXCEPT !.alive = FALSE]
    BY <1>14 DEF ServerDies, DropServer
  <2>2. server' \in Children
    BY <1>0, <2>1 DEF ChildTyped, Children
  <2> QED BY <1>0, <1>14, <2>2 DEF ServerDies, DropServer, threads, ChildTyped
<1>15. CASE Escapes \/ OutsiderEnds
  <2>1. PICK o \in BOOLEAN : server' = [server EXCEPT !.outside = o]
    BY <1>15 DEF Escapes, OutsiderEnds
  <2>2. server' \in Children
    BY <1>0, <2>1 DEF ChildTyped, Children
  <2> QED BY <1>0, <1>15, <2>2 DEF Escapes, OutsiderEnds, threads, ChildTyped
<1>16. CASE UNCHANGED stdioVars
  BY <1>0, <1>16 DEF stdioVars, ChildTyped
<1> QED BY <1>1, <1>2, <1>3, <1>4, <1>5, <1>6, <1>7, <1>8, <1>9, <1>10, <1>11, <1>12, <1>13,
           <1>14, <1>15, <1>16 DEF StdioNext, CallerSteps, ReaderSteps

\* How a request ends.
LEMMA EndsKeeps ==
  ASSUME StdioInv, NEW how \in {"answered", "down", "timeout"}, NEW id \in 0..StdioCalls, Ends(how, id),
         Asks, how = "answered" => id = caller.line.id, pending' = {}, nextId' = nextId,
         offers' \in BOOLEAN, ChildTyped'
  PROVE  StdioInv'
<1> USE StdioConstants
<1>1. /\ results' = Append(results, [how |-> how, id |-> id]) /\ caller' = Quiet
      /\ stage' \in {"up", "failed", "initialized"}
  BY DEF Ends
<1>2. results \in Seq(Outcomes) /\ nextId \in 0..StdioCalls /\ Len(results) = nextId - 1
      /\ caller.line.id = nextId
  BY DEF StdioInv, CallTyped, LastIsUnderWay
<1>3. [how |-> how, id |-> id] \in Outcomes
  BY DEF Outcomes
<1>4. results' \in Seq(Outcomes) /\ Len(results') = nextId /\ results'[nextId].how = how
      /\ results'[nextId].id = id /\ \A i \in DOMAIN results : results'[i] = results[i]
  BY <1>1, <1>2, <1>3
<1>5. Quiet \in Callers /\ Quiet.pc = "idle" /\ Quiet.line = Nothing
  BY DEF Quiet, Callers
<1>6. CallTyped'
  BY <1>1, <1>2, <1>4, <1>5 DEF CallTyped
<1>7. LastIsUnderWay' /\ PendingIsOwn' /\ InboxIsOwn'
  BY <1>1, <1>4, <1>5, KindsOfLines DEF LastIsUnderWay, PendingIsOwn, InboxIsOwn, Asks
<1>8. ASSUME NEW i \in DOMAIN results', results'[i].how = "answered" PROVE results'[i].id = i
  <2>1. CASE i \in DOMAIN results
    BY <1>4, <1>8, <2>1 DEF StdioInv, ResultsAreOwn
  <2>2. CASE i \notin DOMAIN results
    <3>1. i = nextId
      BY <1>1, <1>2, <1>3, <1>4, <2>2
    <3> QED BY <1>2, <1>4, <1>8, <3>1
  <2> QED BY <2>1, <2>2
<1> QED BY <1>6, <1>7, <1>8 DEF StdioInv, ResultsAreOwn

\* Steps of the reader and of the server touch the call only through the map.
LEMMA ElsewhereKeeps ==
  ASSUME StdioInv, UNCHANGED threads, UNCHANGED pending, ChildTyped'
  PROVE  StdioInv'
BY DEF StdioInv, threads, CallTyped, LastIsUnderWay, PendingIsOwn, InboxIsOwn, ResultsAreOwn, Asks

LEMMA StdioStep == StdioInv /\ [StdioNext]_stdioVars => StdioInv'
<1> SUFFICES ASSUME StdioInv, [StdioNext]_stdioVars PROVE StdioInv'
  OBVIOUS
<1> USE StdioConstants
<1>c. ChildTyped'
  BY ChildStep
<1>0. ChildTyped /\ CallTyped /\ LastIsUnderWay /\ PendingIsOwn /\ InboxIsOwn /\ ResultsAreOwn
      /\ caller \in Callers /\ nextId \in 0..StdioCalls
  BY DEF StdioInv, CallTyped
<1>1. ASSUME NEW m \in Methods, Register(m) PROVE StdioInv'
  <2>1. /\ caller.pc = "idle" /\ nextId < StdioCalls /\ nextId' = nextId + 1
        /\ pending' = pending \cup {nextId + 1} /\ inbox' = Nothing
        /\ caller' = [pc |-> "lock", line |-> Request(m, nextId + 1)]
        /\ UNCHANGED <<stage, results, offers>>
    BY <1>1 DEF Register, Idle
  <2>2. nextId + 1 \in Ids
    BY <1>0, <2>1 DEF Ids
  <2>3. /\ Request(m, nextId + 1) \in ToServer /\ caller'.line.kind = "request"
        /\ caller'.line.id = nextId + 1 /\ caller'.pc = "lock"
    BY <2>1, <2>2, KindsOfLines
  <2>4. caller' \in Callers /\ caller'.line # Nothing
    BY <2>1, <2>3, KindsOfLines DEF Callers
  <2>5. ~Asks /\ pending = {} /\ Len(results) = nextId
    BY <1>0, <2>1, KindsOfLines DEF LastIsUnderWay, Asks
  <2>6. CallTyped'
    BY <1>0, <2>1, <2>2, <2>4 DEF CallTyped, Ids
  <2>7. LastIsUnderWay' /\ PendingIsOwn' /\ InboxIsOwn' /\ ResultsAreOwn'
    BY <1>0, <2>1, <2>3, <2>4, <2>5
       DEF LastIsUnderWay, PendingIsOwn, InboxIsOwn, ResultsAreOwn, Asks
  <2> QED BY <1>c, <2>6, <2>7 DEF StdioInv
<1>2. CASE Handshake
  BY <1>1, <1>2 DEF Handshake, Methods
<1>3. CASE Call
  BY <1>1, <1>3 DEF Call, Methods
<1>4. CASE Resources
  BY <1>1, <1>4 DEF Resources, Methods
<1>5. CASE Notify
  <2>1. /\ caller.pc = "idle" /\ caller' = [pc |-> "lock", line |-> Line("notice", 0)]
        /\ UNCHANGED <<stage, nextId, pending, inbox, results, offers>>
    BY <1>5 DEF Notify, Idle
  <2>2. caller' \in Callers /\ caller'.pc = "lock" /\ caller'.line = Line("notice", 0)
    BY <2>1, KindsOfLines DEF Callers
  <2>3. ~Asks /\ ~Asks'
    BY <1>0, <2>1, <2>2, KindsOfLines DEF LastIsUnderWay, Asks
  <2> QED BY <1>0, <1>c, <2>1, <2>2, <2>3, KindsOfLines
          DEF StdioInv, CallTyped, LastIsUnderWay, PendingIsOwn, InboxIsOwn, ResultsAreOwn
<1>6. ASSUME NEW pc \in {"write", "wait", "forget"}, caller' = [caller EXCEPT !.pc = pc], caller.pc # "idle",
             pc \in {"wait", "forget"} => Asks,
             UNCHANGED <<stage, nextId, pending, inbox, results, offers>>
      PROVE  StdioInv'
  <2>1. caller' \in Callers /\ caller'.pc = pc /\ caller'.line = caller.line
    BY <1>0, <1>6 DEF Callers
  <2> QED BY <1>0, <1>6, <1>c, <2>1
          DEF StdioInv, CallTyped, LastIsUnderWay, PendingIsOwn, InboxIsOwn, ResultsAreOwn, Asks
<1>7. CASE LockStdin
  BY <1>6, <1>7 DEF LockStdin, CallerAt
<1>8. ASSUME caller.pc = "write", caller.line.kind = "notice", caller' = Quiet, stage' = "tools/list",
             UNCHANGED <<nextId, pending, inbox, results, offers>>
      PROVE  StdioInv'
  <2>1. Quiet \in Callers /\ Quiet.pc = "idle" /\ Quiet.line = Nothing
    BY DEF Quiet, Callers
  <2>2. ~Asks /\ ~Asks'
    BY <1>8, <2>1, KindsOfLines DEF Asks
  <2> QED BY <1>0, <1>8, <1>c, <2>1, <2>2
          DEF StdioInv, CallTyped, LastIsUnderWay, PendingIsOwn, InboxIsOwn, ResultsAreOwn
<1>9. CASE Write
  <2>1. CASE caller.line.kind = "notice"
    BY <1>8, <1>9, <2>1 DEF Write, CallerAt
  <2>2. CASE caller.line.kind # "notice"
    <3>1. Asks
      BY <1>0, <1>9, <2>2, KindsOfLines DEF Write, CallerAt, LastIsUnderWay
    <3> QED BY <1>6, <1>9, <2>2, <3>1 DEF Write, CallerAt
  <2> QED BY <2>1, <2>2
<1>10. CASE WriteFails
  <2>1. CASE caller.line.kind = "notice"
    BY <1>8, <1>10, <2>1 DEF WriteFails, CallerAt
  <2>2. CASE caller.line.kind # "notice"
    <3>1. Asks
      BY <1>0, <1>10, <2>2, KindsOfLines DEF WriteFails, CallerAt, LastIsUnderWay
    <3>2. pending' = {} /\ Ends("down", 0) /\ UNCHANGED <<nextId, offers>> /\ offers \in BOOLEAN
      BY <1>0, <1>10, <2>2, <3>1 DEF WriteFails, PendingIsOwn, CallTyped
    <3> QED BY <1>c, <3>1, <3>2, EndsKeeps
  <2> QED BY <2>1, <2>2
<1>11. CASE Receive
  <2>1. /\ caller.pc = "wait" /\ inbox # Nothing /\ Ends("answered", inbox.id)
        /\ UNCHANGED <<nextId, pending>> /\ offers' \in BOOLEAN
    BY <1>0, <1>11 DEF Receive, CallerAt, CallTyped
  <2>2. Asks
    BY <1>0, <2>1 DEF LastIsUnderWay
  <2>3. inbox.id = caller.line.id /\ inbox.id \in 0..StdioCalls
    BY <1>0, <2>1, <2>2 DEF InboxIsOwn, LastIsUnderWay
  <2>4. pending' = {}
    BY <1>0, <2>1, <2>2 DEF InboxIsOwn
  <2> QED BY <1>c, <2>1, <2>2, <2>3, <2>4, EndsKeeps
<1>12. CASE TimesOut
  <2>1. Asks
    BY <1>0, <1>12 DEF TimesOut, CallerAt, LastIsUnderWay
  <2> QED BY <1>6, <1>12, <2>1 DEF TimesOut, CallerAt
<1>13. CASE Forget
  <2>1. Asks
    BY <1>0, <1>13 DEF Forget, CallerAt, LastIsUnderWay
  <2>2. pending' = {} /\ Ends("timeout", 0) /\ UNCHANGED <<nextId, offers>> /\ offers \in BOOLEAN
    BY <1>0, <1>13, <2>1 DEF Forget, PendingIsOwn, CallTyped
  <2> QED BY <1>c, <2>1, <2>2, EndsKeeps
<1>14. CASE ReadLine
  <2>1. UNCHANGED <<stage, caller, nextId, results, offers>> /\ Asks' = Asks
    BY <1>14 DEF ReadLine, Asks
  <2>2. CASE UNCHANGED <<pending, inbox>>
    BY <1>c, <2>1, <2>2, ElsewhereKeeps DEF threads
  <2>3. CASE Delivered(Head(toClient)) /\ pending' = pending \ {Head(toClient).id} /\ inbox' = Head(toClient)
    <3>1. Head(toClient).id \in pending
      BY <2>3 DEF Delivered
    <3>2. Asks /\ inbox'.id = caller.line.id /\ pending' = {}
      BY <1>0, <2>3, <3>1 DEF PendingIsOwn
    <3> QED BY <1>0, <1>c, <2>1, <3>2
            DEF StdioInv, CallTyped, LastIsUnderWay, PendingIsOwn, InboxIsOwn, ResultsAreOwn, Asks
  <2> QED BY <1>14, <2>2, <2>3 DEF ReadLine
<1>15. CASE ReaderLocks \/ Refuses \/ ReaderEnds \/ ServerReads \/ ServerSpeaks \/ ServerWrites \/ ServerDies
            \/ Escapes \/ OutsiderEnds
  <2>1. UNCHANGED threads /\ UNCHANGED pending
    BY <1>15 DEF ReaderLocks, Refuses, ReaderEnds, ServerReads, ServerSpeaks, ServerWrites, ServerDies,
           Escapes, OutsiderEnds
  <2> QED BY <1>c, <2>1, ElsewhereKeeps
<1>16. CASE DropServer
  BY <1>0, <1>16, <1>c DEF DropServer, StdioInv, CallTyped, LastIsUnderWay, PendingIsOwn, InboxIsOwn,
     ResultsAreOwn, Asks
<1>17. CASE UNCHANGED stdioVars
  <2>1. UNCHANGED threads /\ UNCHANGED pending
    BY <1>17 DEF stdioVars, threads
  <2> QED BY <1>c, <2>1, ElsewhereKeeps
<1> QED BY <1>2, <1>3, <1>4, <1>5, <1>7, <1>9, <1>10, <1>11, <1>12, <1>13, <1>14, <1>15, <1>16, <1>17
        DEF StdioNext, CallerSteps, ReaderSteps

LEMMA StdioInitially == StdioInit => StdioInv
<1> SUFFICES ASSUME StdioInit PROVE StdioInv
  OBVIOUS
<1> USE StdioConstants
<1>1. caller = Quiet /\ Quiet \in Callers /\ Quiet.pc = "idle" /\ Quiet.line = Nothing
  BY DEF StdioInit, Quiet, Callers
<1>2. CallTyped
  <2>1. nextId \in 0..StdioCalls /\ results \in Seq(Outcomes) /\ pending \subseteq Ids
    BY DEF StdioInit
  <2> QED BY <1>1, <2>1 DEF StdioInit, CallTyped
<1>3. server \in Children
  BY DEF StdioInit, Children
<1>4. toServer \in Seq(ToServer) /\ toClient \in Seq(FromServer)
      /\ Len(toServer) = 0 /\ Len(toClient) = 0 /\ reader \in [pc : {"read", "lock", "write", "over"}]
  BY DEF StdioInit
<1>5. ChildTyped
  BY <1>3, <1>4 DEF StdioInit, ChildTyped
<1>6. LastIsUnderWay /\ PendingIsOwn /\ InboxIsOwn /\ ResultsAreOwn
  BY <1>1, KindsOfLines
     DEF StdioInit, LastIsUnderWay, PendingIsOwn, InboxIsOwn, ResultsAreOwn, Asks
<1> QED BY <1>2, <1>5, <1>6 DEF StdioInv

LEMMA StdioInvariant == Spec => []StdioInv
<1>1. Init => StdioInv
  BY StdioInitially DEF Init
<1>2. StdioInv /\ [Next]_vars => StdioInv'
  BY StepOfPart, StdioStep
<1> QED BY <1>1, <1>2, PTL DEF Spec

\* Every call of an MCP server that returns an answer returns the answer to its
\* own request, however late, often or disordered the server speaks, and what
\* is pending in the reader's map is under way (mcp.rs).
THEOREM AnswersAreOwn == Spec => []OwnAnswer
<1>1. StdioInv => OwnAnswer
  BY DEF StdioInv, ResultsAreOwn, PendingIsOwn, Asks, OwnAnswer
<1> QED BY <1>1, StdioInvariant, PTL

-----------------------------------------------------------------------------
(* Shell.  Chunks go from the pipe to the channel to the result, and the   *)
(* end of the pipe is the end of those who could write to it: only a       *)
(* living process of the group starts another.                             *)

Outputs == [written : 0..Chunks, read : 0..Chunks, sent : 0..Chunks, got : 0..Chunks]
Waiters == [pc : {"idle", "poll", "kill", "join", "receive", "done"}, timedOut : BOOLEAN, noted : BOOLEAN]

ShellTyped ==
    /\ kind \in {"shell", "hook"} /\ tree \in [Tree -> {"none", "up", "gone"}]
    /\ out \in Outputs /\ drainer \in {"off", "reads", "eof"} /\ feeder \in {"writes", "done"}
    /\ waiter \in Waiters

Passed    == out.got <= out.sent /\ out.sent <= out.read /\ out.read <= out.written
OffAtRest == waiter.pc = "idle" => drainer = "off" /\ ~waiter.timedOut
EofIsEnd  == drainer = "eof" => ~Held /\ out.sent = out.written
GroupGone == waiter.timedOut => \A p \in Group : ~Up(p)
Honest    == waiter.pc = "done" /\ kind = "shell" /\ ~waiter.noted => drainer = "eof" /\ out.got = out.sent

ShellInv == ShellTyped /\ Passed /\ OffAtRest /\ EofIsEnd /\ GroupGone /\ Honest

LEMMA ShellConstants == Chunks \in Nat /\ Room \in Nat \ {0}
  BY ShellAssumption

LEMMA ShellInitially == ShellInit => ShellInv
<1> SUFFICES ASSUME ShellInit PROVE ShellInv
  OBVIOUS
<1>1. out \in Outputs /\ waiter \in Waiters
  BY ShellConstants DEF ShellInit, Outputs, Waiters
<1>2. tree \in [Tree -> {"none", "up", "gone"}]
  BY DEF ShellInit
<1> QED BY <1>1, <1>2
        DEF ShellInit, ShellInv, ShellTyped, Passed, OffAtRest, EofIsEnd, GroupGone, Honest

\* A step of the waiter that is not the kill.
LEMMA WaiterKeeps ==
  ASSUME ShellInv, waiter' \in Waiters, waiter'.pc # "idle", waiter'.timedOut = waiter.timedOut,
         UNCHANGED <<kind, tree, out, drainer, feeder>>,
         waiter'.pc = "done" /\ kind = "shell" /\ ~waiter'.noted => drainer = "eof" /\ out.got = out.sent
  PROVE  ShellInv'
BY DEF ShellInv, ShellTyped, Passed, OffAtRest, EofIsEnd, GroupGone, Honest, Held, Up

LEMMA ShellStep == ShellInv /\ [ShellNext]_shellVars => ShellInv'
<1> SUFFICES ASSUME ShellInv, [ShellNext]_shellVars PROVE ShellInv'
  OBVIOUS
<1> USE ShellConstants
<1>0. /\ kind \in {"shell", "hook"} /\ tree \in [Tree -> {"none", "up", "gone"}]
      /\ out \in Outputs /\ waiter \in Waiters
      /\ Passed /\ OffAtRest /\ EofIsEnd /\ GroupGone /\ Honest
  BY DEF ShellInv, ShellTyped
<1>1. CASE Spawn
  <2>1. waiter.pc = "idle" /\ waiter' = [waiter EXCEPT !.pc = "poll"] /\ drainer' = "reads"
        /\ kind' \in {"shell", "hook"} /\ tree' = [tree EXCEPT !["leader"] = "up"]
        /\ feeder' \in {"writes", "done"} /\ UNCHANGED out
    BY <1>1 DEF Spawn
  <2>2. waiter' \in Waiters /\ waiter'.pc = "poll" /\ waiter'.timedOut = waiter.timedOut
    BY <1>0, <2>1 DEF Waiters
  <2>3. tree' \in [Tree -> {"none", "up", "gone"}]
    BY <1>0, <2>1 DEF Tree, Group
  <2> QED BY <1>0, <2>1, <2>2, <2>3
          DEF ShellInv, ShellTyped, Passed, OffAtRest, EofIsEnd, GroupGone, Honest
<1>2. ASSUME NEW p \in {"kid", "stray"}, Forks(p) PROVE ShellInv'
  <2>1. tree' = [tree EXCEPT ![p] = "up"] /\ UNCHANGED <<kind, out, drainer, feeder, waiter>>
        /\ p \in Tree /\ \E q \in Group : Up(q)
    BY <1>2 DEF Forks, Tree, Group
  <2>2. tree' \in [Tree -> {"none", "up", "gone"}]
    BY <1>0, <2>1
  <2>3. drainer # "eof"
    BY <1>0, <2>1 DEF EofIsEnd, Held, Tree
  <2>4. ~waiter.timedOut
    BY <1>0, <2>1 DEF GroupGone
  <2> QED BY <1>0, <2>1, <2>2, <2>3, <2>4
          DEF ShellInv, ShellTyped, Passed, OffAtRest, EofIsEnd, GroupGone, Honest
<1>3. ASSUME NEW p \in Tree, Leaves(p) PROVE ShellInv'
  <2>1. tree' = [tree EXCEPT ![p] = "gone"] /\ UNCHANGED <<kind, out, drainer, feeder, waiter>>
    BY <1>3 DEF Leaves
  <2>2. tree' \in [Tree -> {"none", "up", "gone"}]
    BY <1>0, <2>1
  <2>3. \A q \in Tree : Up(q)' => Up(q)
    BY <1>0, <2>1 DEF Up
  <2>4. (Held' => Held) /\ \A q \in Group : Up(q)' => Up(q)
    BY <2>3 DEF Held, Tree
  <2> QED BY <1>0, <2>1, <2>2, <2>4
          DEF ShellInv, ShellTyped, Passed, OffAtRest, EofIsEnd, GroupGone, Honest
<1>4. ASSUME NEW p \in Tree, Prints(p) PROVE ShellInv'
  <2>1. out' = [out EXCEPT !.written = out.written + 1] /\ out.written < Chunks /\ Up(p)
        /\ UNCHANGED <<kind, tree, drainer, feeder, waiter>>
    BY <1>4 DEF Prints
  <2>2. out' = [written |-> out.written + 1, read |-> out.read, sent |-> out.sent, got |-> out.got]
    BY <1>0, <2>1 DEF Outputs
  <2>3. out' \in Outputs
    BY <1>0, <2>1, <2>2 DEF Outputs
  <2>4. drainer # "eof"
    BY <1>0, <2>1 DEF EofIsEnd, Held
  <2>5. Passed'
    BY <1>0, <2>2 DEF Passed, Outputs
  <2> QED BY <1>0, <2>1, <2>3, <2>4, <2>5
          DEF ShellInv, ShellTyped, OffAtRest, EofIsEnd, GroupGone, Honest, Up
<1>5. CASE ReadsPayload \/ FeedFails
  BY <1>0, <1>5 DEF ReadsPayload, FeedFails, ShellInv, ShellTyped, Passed, OffAtRest, EofIsEnd,
     GroupGone, Honest, Up, Held
<1>6. CASE ReadsChunk
  <2>1. out' = [out EXCEPT !.read = out.read + 1, !.sent = IF kind = "shell" THEN out.sent + 1 ELSE out.sent]
        /\ out.read < out.written /\ drainer = "reads" /\ UNCHANGED <<kind, tree, drainer, feeder, waiter>>
    BY <1>6 DEF ReadsChunk
  <2>2. out' = [written |-> out.written, read |-> out.read + 1, got |-> out.got,
                sent |-> IF kind = "shell" THEN out.sent + 1 ELSE out.sent]
    BY <1>0, <2>1 DEF Outputs
  <2>3. out.sent + 1 \in 0..Chunks /\ out.read + 1 \in 0..Chunks
    BY <1>0, <2>1 DEF Outputs, Passed
  <2>4. out' \in Outputs
    BY <1>0, <2>2, <2>3 DEF Outputs
  <2>5. Passed'
    BY <1>0, <2>1, <2>2 DEF Passed, Outputs
  <2> QED BY <1>0, <2>1, <2>4, <2>5
          DEF ShellInv, ShellTyped, OffAtRest, EofIsEnd, GroupGone, Honest, Up
<1>7. CASE PipeEnds
  <2>1. out' = [out EXCEPT !.sent = out.read] /\ out.read = out.written /\ drainer = "reads" /\ drainer' = "eof"
        /\ ~Held /\ UNCHANGED <<kind, tree, feeder, waiter>>
    BY <1>7 DEF PipeEnds
  <2>2. out' = [written |-> out.written, read |-> out.read, sent |-> out.read, got |-> out.got]
    BY <1>0, <2>1 DEF Outputs
  <2>3. out' \in Outputs /\ out'.sent = out'.written
    BY <1>0, <2>1, <2>2 DEF Outputs
  <2>4. Passed'
    BY <1>0, <2>1, <2>2 DEF Passed, Outputs
  <2>5. waiter.pc = "done" /\ kind = "shell" => waiter.noted
    BY <1>0, <2>1 DEF Honest
  <2>6. ~Held'
    BY <2>1 DEF Held, Up
  <2> QED BY <1>0, <2>1, <2>3, <2>4, <2>5, <2>6
          DEF ShellInv, ShellTyped, OffAtRest, EofIsEnd, GroupGone, Honest, Up
<1>8. ASSUME NEW pc \in {"kill", "join", "receive"}, waiter' = [waiter EXCEPT !.pc = pc],
             UNCHANGED <<kind, tree, out, drainer, feeder>>
      PROVE  ShellInv'
  <2>1. waiter' \in Waiters /\ waiter'.pc = pc /\ waiter'.timedOut = waiter.timedOut
    BY <1>0, <1>8 DEF Waiters
  <2> QED BY <1>8, <2>1, WaiterKeeps
<1>9. CASE Ended \/ TimeIsUp \/ JoinsFeeder
  BY <1>8, <1>9 DEF Ended, TimeIsUp, JoinsFeeder, On, AfterWait
<1>10. CASE KillsGroup
  <2>1. /\ tree' = [p \in Tree |-> IF p \in Group /\ Up(p) THEN "gone" ELSE tree[p]]
        /\ waiter' = [waiter EXCEPT !.pc = AfterWait, !.timedOut = TRUE]
        /\ UNCHANGED <<kind, out, drainer, feeder>>
    BY <1>10 DEF KillsGroup
  <2>2. tree' \in [Tree -> {"none", "up", "gone"}]
    BY <1>0, <2>1
  <2>3. waiter' = [pc |-> AfterWait, timedOut |-> TRUE, noted |-> waiter.noted]
    BY <1>0, <2>1 DEF Waiters
  <2>4. waiter' \in Waiters /\ waiter'.pc \notin {"idle", "done"}
    BY <1>0, <2>3 DEF Waiters, AfterWait
  <2>5. \A p \in Tree : Up(p)' => Up(p) /\ p \notin Group
    BY <1>0, <2>1 DEF Up
  <2>6. (Held' => Held) /\ \A p \in Group : ~Up(p)'
    BY <2>5 DEF Held, Tree
  <2> QED BY <1>0, <2>1, <2>2, <2>4, <2>6
          DEF ShellInv, ShellTyped, Passed, OffAtRest, EofIsEnd, GroupGone, Honest
<1>11. CASE Drains
  <2>1. waiter' = [waiter EXCEPT !.pc = "done"] /\ drainer = "eof" /\ out.got = out.sent
        /\ UNCHANGED <<kind, tree, out, drainer, feeder>>
    BY <1>11 DEF Drains, On, AllRead
  <2>2. waiter' \in Waiters /\ waiter'.pc = "done" /\ waiter'.timedOut = waiter.timedOut
    BY <1>0, <2>1 DEF Waiters
  <2> QED BY <2>1, <2>2, WaiterKeeps
<1>12. CASE GraceIsOver
  <2>1. waiter' = [waiter EXCEPT !.pc = "done", !.noted = (kind = "shell")]
        /\ UNCHANGED <<kind, tree, out, drainer, feeder>>
    BY <1>12 DEF GraceIsOver
  <2>2. waiter' = [pc |-> "done", timedOut |-> waiter.timedOut, noted |-> (kind = "shell")]
    BY <1>0, <2>1 DEF Waiters
  <2>3. waiter' \in Waiters /\ waiter'.pc = "done" /\ waiter'.timedOut = waiter.timedOut
        /\ (kind = "shell" => waiter'.noted)
    BY <1>0, <2>2 DEF Waiters
  <2> QED BY <2>1, <2>3, WaiterKeeps
<1>13. CASE Gets
  <2>1. out' = [out EXCEPT !.got = IF kind = "hook" THEN out.sent ELSE out.got + 1]
        /\ out.got < out.sent /\ waiter.pc = "receive" /\ UNCHANGED <<kind, tree, drainer, feeder, waiter>>
    BY <1>13 DEF Gets
  <2>2. out' = [written |-> out.written, read |-> out.read, sent |-> out.sent,
                got |-> IF kind = "hook" THEN out.sent ELSE out.got + 1]
    BY <1>0, <2>1 DEF Outputs
  <2>3. out' \in Outputs
    BY <1>0, <2>1, <2>2 DEF Outputs, Passed
  <2>4. Passed'
    BY <1>0, <2>1, <2>2 DEF Passed, Outputs
  <2> QED BY <1>0, <2>1, <2>2, <2>3, <2>4
          DEF ShellInv, ShellTyped, OffAtRest, EofIsEnd, GroupGone, Honest, Up, Held
<1>14. CASE UNCHANGED shellVars
  BY <1>14 DEF shellVars, ShellInv, ShellTyped, Passed, OffAtRest, EofIsEnd, GroupGone, Honest, Up, Held
<1> QED BY <1>1, <1>2, <1>3, <1>4, <1>5, <1>6, <1>7, <1>9, <1>10, <1>11, <1>12, <1>13, <1>14
        DEF ShellNext, WaiterStep

LEMMA ShellInvariant == Spec => []ShellInv
<1>1. Init => ShellInv
  BY ShellInitially DEF Init
<1>2. ShellInv /\ [Next]_vars => ShellInv'
  BY StepOfPart, ShellStep
<1> QED BY <1>1, <1>2, PTL DEF Spec

\* The result of a command that does not say that output is missing holds all
\* its processes ever wrote, and nobody is left to write more; where the time
\* was up, nothing of its process group lives (tools.rs, hooks.rs).
THEOREM ResultsAreHonest == Spec => []ResultHonest
<1>1. ShellInv => ResultHonest
  BY DEF ShellInv, ShellTyped, Outputs, Passed, EofIsEnd, GroupGone, Honest, ResultHonest
<1> QED BY <1>1, ShellInvariant, PTL

-----------------------------------------------------------------------------
(* Sinks.  As long as the end of the run can wait, an accepted event was   *)
(* posted, or is in the flusher's hand, or in the channel, in this order;  *)
(* and the flusher is over only when both are empty.                       *)

EventSeq == Seq(1..Events)

SinksTyped ==
    /\ sink \in {"observ", "notify"} /\ emitted \in 0..Events
    /\ accepted \in EventSeq /\ channel \in EventSeq /\ batch \in EventSeq /\ posted \in EventSeq

Order == ~late => posted \o batch \o channel = accepted

\* A notification is not kept in hand while another is waited for.
OneByOne == sink = "notify" /\ flusher \in {"waits", "recv"} => batch = <<>>

OffYet   == host = "off" => flusher = "off" /\ batch = <<>>
\* The end of the flusher comes after that of the run.
AfterRun == flusher \in {"drain", "drainPost", "lastPost", "over"} => host \in {"closing", "over"}
Emptied  == /\ flusher = "lastPost" => channel = <<>>
            /\ flusher = "over" /\ ~late => channel = <<>> /\ batch = <<>>
            /\ host = "over" /\ ~late => flusher = "over"

SinksInv == SinksTyped /\ Order /\ OneByOne /\ OffYet /\ AfterRun /\ Emptied

LEMMA SinksConstants == Events \in Nat /\ ChannelCap \in Nat \ {0} /\ BatchSize \in Nat \ {0}
  BY SinksAssumption

\* The next of what is waiting goes to the end of what is in hand.
LEMMA HeadMoves ==
  ASSUME NEW S, NEW b \in Seq(S), NEW c \in Seq(S), c # <<>>
  PROVE  /\ Append(b, Head(c)) \in Seq(S) /\ Tail(c) \in Seq(S)
         /\ Append(b, Head(c)) \o Tail(c) = b \o c
<1>1. Head(c) \in S /\ Tail(c) \in Seq(S) /\ Append(b, Head(c)) \in Seq(S)
  BY HeadTailProperties, AppendProperties
<1>2. c = <<Head(c)>> \o Tail(c) /\ <<Head(c)>> \in Seq(S)
  OBVIOUS
<1>3. Append(b, Head(c)) \o Tail(c) = b \o c
  BY <1>1, <1>2, AppendIsConcat, ConcatAssociative
<1> QED BY <1>1, <1>3

\* What is emitted goes to the end of all.
LEMMA EmitAppends ==
  ASSUME NEW S, NEW p \in Seq(S), NEW c \in Seq(S), NEW e \in S
  PROVE  p \o Append(c, e) = Append(p \o c, e)
BY AppendIsConcat, ConcatAssociative, ConcatProperties

LEMMA TakesMoves ==
  ASSUME SinksInv, NEW full, NEW more, Takes(full, more)
  PROVE  /\ channel' \in EventSeq /\ batch' \in EventSeq /\ channel # <<>> /\ batch' # <<>>
         /\ posted' = posted /\ posted' \o batch' \o channel' = posted \o batch \o channel
         /\ flusher' \in {full, more}
         /\ Len(batch') >= 1 /\ (Len(batch') >= Size => flusher' = full)
<1>1. /\ channel # <<>> /\ channel' = Tail(channel) /\ batch' = Append(batch, Head(channel))
      /\ posted' = posted /\ flusher' = IF Len(batch') >= Size THEN full ELSE more
  BY DEF Takes
<1>2. channel \in EventSeq /\ batch \in EventSeq /\ posted \in EventSeq
  BY DEF SinksInv, SinksTyped
<1>4. batch' # <<>> /\ Len(batch') = Len(batch) + 1 /\ Len(batch) \in Nat
  <2> DEFINE E == 1..Events
  <2>1. batch \in Seq(E) /\ channel \in Seq(E)
    BY <1>2 DEF EventSeq
  <2> HIDE DEF E
  <2>2. Head(channel) \in E
    BY <1>1, <2>1, HeadTailProperties
  <2> QED BY <1>1, <2>1, <2>2, AppendProperties, LenProperties
<1>5. /\ batch' \in EventSeq /\ channel' \in EventSeq
      /\ posted \o batch' \o channel' = posted \o batch \o channel
  <2> DEFINE E == 1..Events
  <2>1. posted \in Seq(E) /\ batch \in Seq(E) /\ channel \in Seq(E)
    BY <1>2 DEF EventSeq
  <2> HIDE DEF E
  <2>2. batch' \in Seq(E) /\ channel' \in Seq(E) /\ batch' \o channel' = batch \o channel
    BY <1>1, <2>1, HeadMoves
  <2>3. ASSUME NEW u \in Seq(E), NEW v \in Seq(E) PROVE posted \o u \o v = posted \o (u \o v)
    BY <2>1, ConcatAssociative, SMTT(30)
  <2>4. posted \o batch \o channel = posted \o (batch \o channel)
    BY <2>1, <2>3
  <2>5. posted \o batch' \o channel' = posted \o (batch' \o channel')
    BY <2>2, <2>3
  <2> QED BY <2>2, <2>4, <2>5 DEF EventSeq, E
<1>6. flusher' \in {full, more} /\ Len(batch') >= 1 /\ (Len(batch') >= Size => flusher' = full)
  BY <1>1, <1>4
<1> QED BY <1>1, <1>4, <1>5, <1>6

LEMMA SinksInitially == SinksInit => SinksInv
BY SinksConstants, ConcatEmptySeq, EmptySeq
   DEF SinksInit, SinksInv, SinksTyped, EventSeq, Order, OneByOne, OffYet, AfterRun, Emptied

LEMMA SinksStep == SinksInv /\ [SinksNext]_sinkVars => SinksInv'
<1> SUFFICES ASSUME SinksInv, [SinksNext]_sinkVars PROVE SinksInv'
  OBVIOUS
<1> USE SinksConstants
<1>0. SinksTyped /\ Order /\ OneByOne /\ OffYet /\ AfterRun /\ Emptied
  BY DEF SinksInv
<1>1. CASE StartSink
  BY <1>0, <1>1 DEF StartSink, SinksInv, SinksTyped, Order, OneByOne, OffYet, AfterRun, Emptied
<1>2. CASE Emit
  <2>1. host = "runs" /\ emitted' = emitted + 1 /\ emitted' \in 1..Events
        /\ UNCHANGED <<sink, batch, posted, flusher, host, late>>
    BY <1>0, <1>2 DEF Emit, SinksTyped
  <2>2. \/ channel' = channel /\ accepted' = accepted
        \/ channel' = Append(channel, emitted') /\ accepted' = Append(accepted, emitted')
    BY <1>2 DEF Emit
  <2>3. channel' \in EventSeq /\ accepted' \in EventSeq
    <3> DEFINE E == 1..Events
    <3>1. channel \in Seq(E) /\ accepted \in Seq(E) /\ emitted' \in E
      BY <1>0, <2>1 DEF SinksTyped, EventSeq
    <3> HIDE DEF E
    <3>2. Append(channel, emitted') \in Seq(E) /\ Append(accepted, emitted') \in Seq(E)
      BY <3>1, AppendProperties, Zenon
    <3> QED BY <2>2, <3>1, <3>2 DEF EventSeq, E
  <2>4. Order'
    <3>1. posted \o batch \in EventSeq /\ channel \in EventSeq
      BY <1>0, ConcatProperties DEF SinksTyped, EventSeq
    <3>2. posted \o batch \o Append(channel, emitted') = Append(posted \o batch \o channel, emitted')
      <4> DEFINE E == 1..Events
      <4>1. posted \o batch \in Seq(E) /\ channel \in Seq(E) /\ emitted' \in E
        BY <2>1, <3>1 DEF EventSeq
      <4> HIDE DEF E
      <4> QED BY <4>1, EmitAppends
    <3> QED BY <1>0, <2>1, <2>2, <3>2 DEF Order
  <2>5. SinksTyped'
    BY <1>0, <2>1, <2>3 DEF SinksTyped
  <2>6. flusher \notin {"drain", "drainPost", "lastPost", "over"}
    BY <1>0, <2>1 DEF AfterRun
  <2> QED BY <1>0, <2>1, <2>4, <2>5, <2>6 DEF SinksInv, OneByOne, OffYet, AfterRun, Emptied
<1>3. CASE Shutdown
  BY <1>0, <1>3 DEF Shutdown, SinksInv, SinksTyped, Order, OneByOne, OffYet, AfterRun, Emptied
<1>4. CASE Looks
  BY <1>0, <1>4 DEF Looks, Flushes, SinksInv, SinksTyped, Order, OneByOne, OffYet, AfterRun, Emptied
<1>5. ASSUME NEW from \in {"recv", "drain"}, NEW full \in {"post", "drainPost"}, NEW more \in {"waits", "drain"},
             Flushes(from), Takes(full, more),
             IF from = "recv" THEN full = "post" /\ more = "waits" ELSE full = "drainPost" /\ more = "drain"
      PROVE  SinksInv'
  <2>1. flusher = from /\ host # "over" /\ UNCHANGED <<sink, emitted, accepted, host, late>>
    BY <1>5 DEF Flushes
  <2>2. /\ channel' \in EventSeq /\ batch' \in EventSeq /\ posted' = posted
        /\ posted' \o batch' \o channel' = posted \o batch \o channel
        /\ flusher' \in {full, more} /\ Len(batch') >= 1 /\ (Len(batch') >= Size => flusher' = full)
    BY <1>5, TakesMoves
  <2>3. sink = "notify" => flusher' = full
    BY <2>2 DEF Size
  <2> QED BY <1>0, <1>5, <2>1, <2>2, <2>3
          DEF SinksInv, SinksTyped, Order, OneByOne, OffYet, AfterRun, Emptied
<1>6. CASE Recv
  BY <1>5, <1>6 DEF Recv
<1>7. CASE Interval
  BY <1>0, <1>7 DEF Interval, Flushes, SinksInv, SinksTyped, Order, OneByOne, OffYet, AfterRun, Emptied
<1>8. CASE Disconnected
  BY <1>0, <1>8 DEF Disconnected, Flushes, SinksInv, SinksTyped, Order, OneByOne, OffYet, AfterRun, Emptied
<1>9. ASSUME NEW from \in {"post", "drainPost", "lastPost"}, NEW to \in {"waits", "drain", "over"},
             Sends(from, to),
             from = "lastPost" <=> to = "over", to = "drain" => from = "drainPost"
      PROVE  SinksInv'
  <2>1. /\ flusher = from /\ host # "over" /\ UNCHANGED <<sink, emitted, accepted, host, late, channel>>
        /\ posted' = posted \o batch /\ batch' = <<>> /\ flusher' = to
    BY <1>9 DEF Sends, Flushes
  <2>2. posted' \in EventSeq /\ batch' \in EventSeq /\ posted' \o batch' = posted \o batch
    BY <1>0, <2>1, ConcatProperties, ConcatEmptySeq DEF SinksTyped, EventSeq
  <2>3. Order'
    BY <1>0, <2>1, <2>2 DEF Order
  <2> QED BY <1>0, <1>9, <2>1, <2>2, <2>3
          DEF SinksInv, SinksTyped, OneByOne, OffYet, AfterRun, Emptied
<1>10. CASE PostEnds
  BY <1>9, <1>10 DEF PostEnds
<1>11. CASE Drain
  <2>1. CASE Takes("drainPost", "drain")
    BY <1>5, <1>11, <2>1 DEF Drain
  <2>2. CASE late /\ channel # <<>> /\ channel' = Tail(channel) /\ batch' = <<>> /\ flusher' = "over"
             /\ UNCHANGED posted
    <3>1. channel' \in EventSeq /\ batch' \in EventSeq
      BY <1>0, <2>2, HeadTailProperties, EmptySeq DEF SinksTyped, EventSeq
    <3>2. flusher = "drain" /\ host # "over" /\ UNCHANGED <<sink, emitted, accepted, host, late>>
      BY <1>11 DEF Drain, Flushes
    <3> QED BY <1>0, <2>2, <3>1, <3>2
            DEF SinksInv, SinksTyped, Order, OneByOne, OffYet, AfterRun, Emptied
  <2>3. CASE /\ channel = <<>> /\ UNCHANGED <<channel, posted>>
             /\ flusher' = (IF late \/ batch = <<>> THEN "over" ELSE "lastPost")
             /\ batch' = IF late THEN <<>> ELSE batch
    <3>1. batch' \in EventSeq
      BY <1>0, <2>3, EmptySeq DEF SinksTyped, EventSeq
    <3>2. flusher = "drain" /\ host # "over" /\ UNCHANGED <<sink, emitted, accepted, host, late>>
      BY <1>11 DEF Drain, Flushes
    <3> QED BY <1>0, <2>3, <3>1, <3>2
            DEF SinksInv, SinksTyped, Order, OneByOne, OffYet, AfterRun, Emptied
  <2> QED BY <1>11, <2>1, <2>2, <2>3 DEF Drain
<1>12. CASE Expires
  BY <1>0, <1>12 DEF Expires, SinksInv, SinksTyped, Order, OneByOne, OffYet, AfterRun, Emptied
<1>13. CASE HostExits
  BY <1>0, <1>13 DEF HostExits, SinksInv, SinksTyped, Order, OneByOne, OffYet, AfterRun, Emptied
<1>14. CASE UNCHANGED sinkVars
  BY <1>0, <1>14 DEF sinkVars, SinksInv, SinksTyped, Order, OneByOne, OffYet, AfterRun, Emptied
<1> QED BY <1>1, <1>2, <1>3, <1>4, <1>6, <1>7, <1>8, <1>10, <1>11, <1>12, <1>13, <1>14
        DEF SinksNext, FlusherStep

LEMMA SinksInvariant == Spec => []SinksInv
<1>1. Init => SinksInv
  BY SinksInitially DEF Init
<1>2. SinksInv /\ [Next]_vars => SinksInv'
  BY StepOfPart, SinksStep
<1> QED BY <1>1, <1>2, PTL DEF Spec

\* Neither the channel nor what is in hand outgrows its bound, however long the
\* endpoint hangs.
KeepsRoom ==
    /\ Len(channel) <= ChannelCap /\ Len(batch) <= BatchSize
    /\ flusher \in {"waits", "recv", "drain"} => Len(batch) < BatchSize
    /\ flusher \in {"off", "waits", "recv", "post", "drain", "drainPost", "lastPost", "over"}
    /\ host \in {"off", "runs", "closing", "over"} /\ late \in BOOLEAN

LEMMA RoomStep == SinksInv /\ KeepsRoom /\ [SinksNext]_sinkVars => KeepsRoom'
<1> SUFFICES ASSUME SinksInv, KeepsRoom, [SinksNext]_sinkVars PROVE KeepsRoom'
  OBVIOUS
<1> USE SinksConstants
<1>0. /\ channel \in EventSeq /\ batch \in EventSeq /\ Len(channel) \in Nat /\ Len(batch) \in Nat
      /\ Size \in Nat \ {0} /\ Size <= BatchSize /\ Len(<<>>) = 0
  BY DEF SinksInv, SinksTyped, Size, EventSeq
<1>1. CASE StartSink \/ Shutdown \/ Looks \/ Interval \/ Disconnected \/ Expires \/ HostExits \/ UNCHANGED sinkVars
  <2>1. batch' = batch /\ channel' = channel
    BY <1>1 DEF StartSink, Shutdown, Looks, Interval, Disconnected, Expires, HostExits, sinkVars
  <2>2. /\ flusher' \in {"off", "waits", "recv", "post", "drain", "drainPost", "lastPost", "over"}
        /\ host' \in {"off", "runs", "closing", "over"} /\ late' \in BOOLEAN
    BY <1>1 DEF KeepsRoom, StartSink, Shutdown, Looks, Flushes, Interval, Disconnected, Expires, HostExits, sinkVars
  <2>3. flusher' \in {"waits", "recv", "drain"} =>
          flusher \in {"waits", "recv", "drain"} \/ batch = <<>>
    BY <1>1 DEF SinksInv, OffYet, StartSink, Shutdown, Looks, Flushes, Interval, Disconnected, Expires,
                HostExits, sinkVars
  <2> QED BY <1>0, <2>1, <2>2, <2>3 DEF KeepsRoom
<1>2. CASE Emit
  <2>1. /\ channel' = IF Len(channel) < ChannelCap THEN Append(channel, emitted') ELSE channel
        /\ UNCHANGED <<batch, flusher, host, late>>
    BY <1>2 DEF Emit
  <2>2. Len(channel') <= ChannelCap
    <3>1. CASE Len(channel) < ChannelCap
      <4>1. emitted' \in 1..Events
        BY <1>2 DEF Emit, SinksInv, SinksTyped
      <4>2. Len(Append(channel, emitted')) = Len(channel) + 1
        BY <1>0, <4>1 DEF EventSeq
      <4> QED BY <1>0, <2>1, <3>1, <4>2
    <3> QED BY <2>1, <3>1 DEF KeepsRoom
  <2> QED BY <2>1, <2>2 DEF KeepsRoom
\* One more in hand, where there was room for one.
<1>3. ASSUME NEW full \in {"post", "drainPost"}, NEW more \in {"waits", "drain"},
             flusher \in {"recv", "drain"}, UNCHANGED <<host, late>>, Takes(full, more)
      PROVE  KeepsRoom'
  <2>1. channel # <<>> /\ channel' = Tail(channel) /\ batch' = Append(batch, Head(channel))
    BY <1>3 DEF Takes
  <2>2. Len(channel') <= Len(channel) /\ Len(channel') \in Nat /\ Len(batch') = Len(batch) + 1
    BY <1>0, <2>1 DEF EventSeq
  <2>3. flusher' = IF Len(batch') >= Size THEN full ELSE more
    BY <1>3 DEF Takes
  <2>4. Len(batch) < BatchSize
    BY <1>3 DEF KeepsRoom
  <2>5. Len(channel') <= ChannelCap /\ Len(batch') <= BatchSize
    BY <1>0, <2>2, <2>4 DEF KeepsRoom
  <2>6. flusher' \in {"waits", "recv", "drain"} => Len(batch') < BatchSize
    BY <1>0, <1>3, <2>2, <2>3
  <2> QED BY <1>3, <2>3, <2>5, <2>6 DEF KeepsRoom
<1>4. CASE Recv
  BY <1>3, <1>4 DEF Recv, Flushes
<1>5. CASE PostEnds
  <2>1. /\ batch' = <<>> /\ channel' = channel /\ flusher' \in {"waits", "drain", "over"}
        /\ UNCHANGED <<host, late>>
    BY <1>5 DEF PostEnds, Sends, Flushes
  <2> QED BY <1>0, <2>1 DEF KeepsRoom
<1>6. CASE Drain
  <2>1. flusher = "drain" /\ UNCHANGED <<host, late>>
    BY <1>6 DEF Drain, Flushes
  <2>2. CASE Takes("drainPost", "drain")
    BY <1>3, <2>1, <2>2
  <2>3. CASE channel # <<>> /\ channel' = Tail(channel) /\ batch' = <<>> /\ flusher' = "over"
    <3>1. Len(channel') <= Len(channel) /\ Len(channel') \in Nat
      BY <1>0, <2>3 DEF EventSeq
    <3> QED BY <1>0, <2>1, <2>3, <3>1 DEF KeepsRoom
  <2>4. CASE channel' = channel /\ flusher' \in {"over", "lastPost"} /\ batch' \in {<<>>, batch}
    BY <1>0, <2>1, <2>4 DEF KeepsRoom
  <2> QED BY <1>6, <2>2, <2>3, <2>4 DEF Drain
<1> QED BY <1>1, <1>2, <1>4, <1>5, <1>6 DEF SinksNext, FlusherStep

LEMMA RoomInvariant == Spec => []KeepsRoom
<1>1. Init => KeepsRoom
  <2> SUFFICES ASSUME SinksInit PROVE KeepsRoom
    BY DEF Init
  <2>1. channel = <<>> /\ batch = <<>> /\ flusher = "off" /\ host = "off" /\ late = FALSE
    BY DEF SinksInit
  <2>2. Len(channel) = 0 /\ Len(batch) = 0
    BY <2>1
  <2>3. Len(channel) <= ChannelCap /\ Len(batch) < BatchSize /\ Len(batch) <= BatchSize
    BY <2>2, SinksConstants
  <2>4. flusher = "off" /\ host = "off" /\ late \in BOOLEAN
    BY <2>1
  <2> QED BY <2>3, <2>4 DEF KeepsRoom
<1>2. SinksInv /\ KeepsRoom /\ [Next]_vars => KeepsRoom'
  BY StepOfPart, RoomStep
<1> QED BY <1>1, <1>2, SinksInvariant, PTL DEF Spec

\* Of the events the channel had room for, each is sent once and in order, the
\* last ones too, as long as the end of the run can wait for them (observ.rs,
\* notify.rs).
THEOREM FlushesInOrder == Spec => []FlushedInOrder
<1>1. SinksInv => FlushedInOrder
  <2> SUFFICES ASSUME SinksInv, ~late PROVE FlushedInOrder
    BY DEF FlushedInOrder
  <2>1. posted \o batch \o channel = accepted
    BY DEF SinksInv, Order
  <2>2. ASSUME host = "over" PROVE posted = accepted
    <3>1. batch = <<>> /\ channel = <<>>
      BY <2>2 DEF SinksInv, Emptied
    <3> QED BY <2>1, <3>1, ConcatEmptySeq DEF SinksInv, SinksTyped, EventSeq
  <2> QED BY <2>1, <2>2 DEF FlushedInOrder
<1> QED BY <1>1, SinksInvariant, PTL

-----------------------------------------------------------------------------
(* SteerQueue: the invariant is that of SteerQueueProofs.                  *)

LEMMA SteerInvariant == Spec => []SteerInv
<1>1. Init => SteerInv
  BY SteerInitially DEF Init
<1>2. SteerInv /\ [Next]_vars => SteerInv'
  BY StepOfPart, SteerStep
<1> QED BY <1>1, <1>2, PTL DEF Spec

\* A note that was a complete line of steer.jsonl is there, in the hand of a
\* loop, or said, whoever appends and whoever drains meanwhile: only the end of
\* the loop that took it costs it (chug_steer, drain_steering_queue).
THEOREM NotesAreKept == Spec => []NothingQueuedIsLost
<1> QED BY KeptSomewhere, SteerInvariant, PTL

\* No note is said twice, by one loop or by two, and a loop says those that were
\* sent one after the other in that order (drain_steering_queue).
THEOREM NotesAreSaidOnce == Spec => []SaidOnceInOrder
<1> QED BY HeardInOrder, SteerInvariant, PTL

-----------------------------------------------------------------------------
(* All six.                                                                *)

\* Type correctness of the six peers.
THEOREM TypeCorrect == Spec => []TypeOK
<1>1. ApiInv => ApiTypeOK
  BY DEF ApiInv, ApiTyped, Calls, Positions, Accumulators, ApiTypeOK
<1>2. HttpInv => HttpTypeOK
  <2> SUFFICES ASSUME HttpInv PROVE HttpTypeOK
    OBVIOUS
  <2>1. HttpTyped /\ OneChance
    BY DEF HttpInv
  <2>2. ASSUME NEW i \in Posts PROVE arrived[i] \in 0..Retries + 1 /\ executed[i] \in 0..Retries + 1
    <3>1. /\ arrived[i] \in Nat /\ executed[i] \in Nat
          /\ One(i \in strays) \in {0, 1} /\ One(PostAt("connect") /\ post.id = i) \in {0, 1}
      BY <2>1 DEF HttpTyped, One
    <3>2. executed[i] + arrived[i] + One(i \in strays) + One(PostAt("connect") /\ post.id = i) <= 1
      BY <2>1 DEF OneChance, Chances
    <3> QED BY <3>1, <3>2, HttpConstants
  <2>3. arrived \in [Posts -> 0..Retries + 1] /\ executed \in [Posts -> 0..Retries + 1]
    BY <2>1, <2>2 DEF HttpTyped
  <2> QED BY <2>1, <2>3 DEF HttpTyped, HttpTypeOK, Messages, Endings, Managers
<1>3. StdioInv => StdioTypeOK
  BY DEF StdioInv, CallTyped, ChildTyped, StdioTypeOK, Callers, Outcomes, Children
<1>4. ShellInv => ShellTypeOK
  BY DEF ShellInv, ShellTyped, ShellTypeOK, Outputs, Waiters
<1>5. SinksInv /\ KeepsRoom => SinksTypeOK
  BY DEF SinksInv, SinksTyped, KeepsRoom, SinksTypeOK, EventSeq
<1>6. SteerInv => SteerTypeOK
  BY DEF SteerInv
<1> QED
  BY <1>1, <1>2, <1>3, <1>4, <1>5, <1>6, ApiInvariant, HttpInvariant, StdioInvariant, ShellInvariant,
     SinksInvariant, RoomInvariant, SteerInvariant, PTL DEF TypeOK
=============================================================================
