------------------------------- MODULE McpHttp -------------------------------
(***************************************************************************)
(* src/src/mcp_http.rs: one MCP server spoken to over streamable HTTP.     *)
(* Every message is a POST of its own, made by a worker thread which the   *)
(* caller may leave behind; the response is a JSON body or a stream of     *)
(* events.  A manager thread keeps a GET stream open for what the server   *)
(* has to say by itself, and resumes it after the last event it handled.   *)
(*                                                                         *)
(* The server and the network are the environment: connections fail or     *)
(* break at any point, responses are late, noisy or another request's.     *)
(* Headers and the session id, which decide nothing here, are left out.    *)
(***************************************************************************)
EXTENDS Naturals, Sequences

CONSTANTS HttpCalls,   \* bound: requests sent
          HttpEvents   \* bound: events the server has for the GET stream

ASSUME HttpAssumption == HttpCalls \in Nat /\ HttpEvents \in Nat

VARIABLES phase,     \* the handshake, "up", "gone"
          post,      \* the thread in send_request or send_notification
          lastId,    \* next_id
          ends,      \* ends[i]: how request i ended, and whose answer it got
          usable,    \* alive
          line,      \* what the worker of the current attempt has read
          strays,    \* requests of workers that were left before they connected
          arrived,   \* arrived[i]: copies of request i the server has not begun
          executed,  \* executed[i]: how often it has executed request i
          listen,    \* the listen manager: pc, last_event_id, the parser's id
          said,      \* the events the server has sent, or will replay: 1..said
          handled,   \* the events that reached handle_listen_message
          shutdown

postVars   == <<phase, post, lastId, ends, usable, line, strays, arrived, executed>>
listenVars == <<listen, said, handled>>
httpVars   == <<phase, post, lastId, ends, usable, line, strays, arrived,
                executed, listen, said, handled, shutdown>>

Posts     == 1..HttpCalls
Retries   == 3                   \* PostRetrySchedule: 1s, 2s, 4s
Lines     == {[kind |-> "answer", id |-> i] : i \in Posts}
             \cup {[kind |-> k, id |-> 0] : k \in {"notice", "request", "bad", "eof"}}
NoLine    == [kind |-> "none", id |-> 0]
Idling    == [pc |-> "idle", id |-> 0, tries |-> 0]
ClosedGet == [pc |-> "off", last |-> 0, cursor |-> 0, half |-> 0]

HttpTypeOK ==
    /\ phase \in {"initialize", "initialized", "tools/list", "up", "failed", "gone"}
    /\ post \in [pc : {"idle", "connect", "head", "sse", "json"}, id : 0..HttpCalls, tries : 0..Retries]
    /\ lastId \in 0..HttpCalls /\ usable \in BOOLEAN /\ shutdown \in BOOLEAN
    /\ ends \in Seq([how : {"answered", "failed", "down"}, id : 0..HttpCalls])
    /\ line \in Lines \cup {NoLine} /\ strays \subseteq Posts
    /\ arrived \in [Posts -> 0..Retries + 1] /\ executed \in [Posts -> 0..Retries + 1]
    /\ listen \in [pc : {"off", "connect", "open", "backoff", "over"},
                   last : 0..HttpEvents, cursor : 0..HttpEvents, half : 0..HttpEvents]
    /\ said \in 0..HttpEvents /\ handled \in Seq(1..HttpEvents)

HttpInit ==
    /\ phase = "initialize" /\ post = Idling /\ lastId = 0 /\ ends = <<>>
    /\ usable = TRUE /\ line = NoLine /\ strays = {}
    /\ arrived = [i \in Posts |-> 0] /\ executed = [i \in Posts |-> 0]
    /\ listen = ClosedGet /\ said = 0 /\ handled = <<>> /\ shutdown = FALSE

-----------------------------------------------------------------------------
(* A POST: send_request, send_notification (id 0) and post_attempt.        *)

PostAt(l) == post.pc = l
Begin(i)  == post' = [pc |-> "connect", id |-> i, tries |-> 0] /\ line' = NoLine

\* initialize and tools/list, then calls, which a server that is down is not
\* sent.
PostRequest ==
    /\ PostAt("idle") /\ lastId < HttpCalls
    /\ \/ phase \in {"initialize", "tools/list"}
       \/ phase = "up" /\ usable
    /\ lastId' = lastId + 1 /\ Begin(lastId + 1)
    /\ UNCHANGED <<phase, ends, usable, strays, arrived, executed, listenVars, shutdown>>

PostInitialized ==
    /\ PostAt("idle") /\ phase = "initialized" /\ Begin(0)
    /\ UNCHANGED <<phase, lastId, ends, usable, strays, arrived, executed, listenVars, shutdown>>

\* The message is over.  A failure in the handshake drops the server; after
\* the handshake the GET stream is opened.
Over(how, id) ==
    /\ post' = Idling /\ line' = NoLine
    /\ ends' = IF post.id = 0 THEN ends ELSE Append(ends, [how |-> how, id |-> id])
    /\ phase' = IF phase = "up" THEN "up"
                ELSE IF how # "answered" THEN "failed"
                ELSE CASE phase = "initialize" -> "initialized"
                       [] phase = "initialized" -> "tools/list"
                       [] phase = "tools/list" -> "up"
    /\ listen' = IF phase = "tools/list" /\ how = "answered"
                 THEN [listen EXCEPT !.pc = "connect"] ELSE listen

Copies(f, i) == IF i = 0 THEN f ELSE [f EXCEPT ![i] = @ + 1]

\* No connection: again after 1, 2 and 4 seconds, then the server is down.
ConnectFails ==
    /\ PostAt("connect")
    /\ IF post.tries < Retries
       THEN /\ post' = [post EXCEPT !.tries = @ + 1]
            /\ UNCHANGED <<phase, ends, usable, line, listen>>
       ELSE usable' = FALSE /\ Over("down", 0)
    /\ UNCHANGED <<lastId, strays, arrived, executed, said, handled, shutdown>>

Reaches ==
    /\ PostAt("connect")
    /\ post' = [post EXCEPT !.pc = "head"] /\ arrived' = Copies(arrived, post.id)
    /\ UNCHANGED <<phase, lastId, ends, usable, line, strays, executed, listenVars, shutdown>>

\* The head is late.  The worker is left behind: what it has sent stays sent,
\* and what it has not sent it may still send.
\* Slip: no head within the time limit counts as no connection.
HeadLate_Retried ==
    /\ PostAt("head")
    /\ IF post.tries < Retries
       THEN /\ post' = [post EXCEPT !.pc = "connect", !.tries = @ + 1]
            /\ UNCHANGED <<phase, ends, line, listen, strays>>
       ELSE Over("failed", 0) /\ UNCHANGED strays
    /\ UNCHANGED <<lastId, usable, arrived, executed, said, handled, shutdown>>

HeadLate ==
    /\ post.pc \in {"connect", "head"} /\ Over("failed", 0)
    /\ strays' = IF PostAt("connect") /\ post.id # 0 THEN strays \cup {post.id} ELSE strays
    /\ UNCHANGED <<lastId, usable, arrived, executed, said, handled, shutdown>>

StrayReaches ==
    /\ \E i \in strays : strays' = strays \ {i} /\ arrived' = Copies(arrived, i)
    /\ UNCHANGED <<phase, post, lastId, ends, usable, line, executed, listenVars, shutdown>>

\* The connection breaks, the status is an error, or the request was only
\* acknowledged: an error at once.
Fails ==
    /\ post.pc # "idle" /\ Over("failed", 0)
    /\ UNCHANGED <<lastId, usable, strays, arrived, executed, said, handled, shutdown>>

\* 200 or 202 is all a notification waits for; a request goes on to the body.
HeadComes ==
    /\ PostAt("head")
    /\ IF post.id = 0 THEN Over("answered", 0)
       ELSE /\ \E b \in {"sse", "json"} : post' = [post EXCEPT !.pc = b]
            /\ UNCHANGED <<phase, ends, line, listen>>
    /\ UNCHANGED <<lastId, usable, strays, arrived, executed, said, handled, shutdown>>

\* Slip: the time limit is that of one line.
BodyLate_PerLine ==
    /\ post.pc \in {"sse", "json"} /\ line = NoLine /\ Over("failed", 0)
    /\ UNCHANGED <<lastId, usable, strays, arrived, executed, said, handled, shutdown>>

\* One deadline for the whole body, however much the server sends.
BodyLate ==
    /\ post.pc \in {"sse", "json"} /\ Over("failed", 0)
    /\ UNCHANGED <<lastId, usable, strays, arrived, executed, said, handled, shutdown>>

Answers == line.kind = "answer" /\ line.id = post.id

\* handle_sse_data, and the JSON body at its end.  A stream may hold other
\* things before the answer (a request is refused by a thread of its own).
BodyLine ==
    /\ post.pc \in {"sse", "json"} /\ line # NoLine
    /\ IF Answers THEN Over("answered", line.id)
       ELSE IF PostAt("json") \/ line.kind \in {"bad", "eof"} THEN Over("failed", 0)
       ELSE line' = NoLine /\ UNCHANGED <<phase, post, ends, listen>>
    /\ UNCHANGED <<lastId, usable, strays, arrived, executed, said, handled, shutdown>>

-----------------------------------------------------------------------------
(* The server's side of a POST.                                            *)

Executes ==
    /\ \E i \in Posts :
          /\ arrived[i] > 0
          /\ arrived' = [arrived EXCEPT ![i] = @ - 1]
          /\ executed' = [executed EXCEPT ![i] = @ + 1]
    /\ UNCHANGED <<phase, post, lastId, ends, usable, line, strays, listenVars, shutdown>>

Responds ==
    /\ post.pc \in {"sse", "json"} /\ line = NoLine
    /\ \E l \in Lines :
          /\ l.kind = "answer" => executed[l.id] > 0
          /\ line' = l
    /\ UNCHANGED <<phase, post, lastId, ends, usable, strays, arrived, executed, listenVars, shutdown>>

-----------------------------------------------------------------------------
(* The listen manager: listen_manager, listen_once, SseParser.             *)

Listening == listen.pc \in {"connect", "open", "backoff"}

\* A GET with the last event handled, from which the server goes on; without
\* one it sends what comes from now on.
GetOpens ==
    /\ listen.pc = "connect" /\ ~shutdown
    /\ listen' = [listen EXCEPT !.pc = "open", !.half = 0,
                   !.cursor = IF listen.last = 0 THEN said ELSE listen.last]
    /\ UNCHANGED <<postVars, said, handled, shutdown>>

\* No connection, no head within 30 s, a status or a type that is not a
\* stream's; or the stream ends.
GetFails ==
    /\ listen.pc \in {"connect", "open"}
    /\ listen' = [listen EXCEPT !.pc = "backoff"]
    /\ UNCHANGED <<postVars, said, handled, shutdown>>

\* 405: the server has no such stream.
GetNotOffered ==
    /\ listen.pc = "connect" /\ listen' = [listen EXCEPT !.pc = "over"]
    /\ UNCHANGED <<postVars, said, handled, shutdown>>

Reconnects ==
    /\ listen.pc = "backoff" /\ ~shutdown
    /\ listen' = [listen EXCEPT !.pc = "connect"]
    /\ UNCHANGED <<postVars, said, handled, shutdown>>

\* The manager looks at the flag at every wait, which lasts 100 ms at most.
ListenQuits ==
    /\ Listening /\ shutdown /\ listen' = [listen EXCEPT !.pc = "over"]
    /\ UNCHANGED <<postVars, said, handled, shutdown>>

ServerSays ==
    /\ Listening /\ said < HttpEvents /\ said' = said + 1
    /\ UNCHANGED <<postVars, listen, handled, shutdown>>

\* Lines of an event arrive: its id is kept by the parser ...
EventLine ==
    /\ listen.pc = "open" /\ listen.cursor < said
    /\ listen.half = 0
    /\ listen' = [listen EXCEPT !.half = listen.cursor + 1]
    /\ UNCHANGED <<postVars, said, handled, shutdown>>

\* ... and with the empty line at its end the event is handled, its id noted.
EventEnds ==
    /\ listen.pc = "open" /\ listen.half # 0
    /\ handled' = Append(handled, listen.half)
    /\ listen' = [listen EXCEPT !.last = listen.half, !.half = 0, !.cursor = listen.half]
    /\ UNCHANGED <<postVars, said, shutdown>>

\* Drop: the manager is told and waited for, 5 s at most.
HttpDrop ==
    /\ PostAt("idle") /\ phase \in {"up", "failed"}
    /\ phase' = "gone" /\ shutdown' = TRUE
    /\ UNCHANGED <<post, lastId, ends, usable, line, strays, arrived, executed, listenVars>>

-----------------------------------------------------------------------------
HttpNext ==
    \/ PostRequest \/ PostInitialized \/ ConnectFails \/ Reaches \/ HeadLate
    \/ StrayReaches \/ Fails \/ HeadComes \/ BodyLate \/ BodyLine
    \/ Executes \/ Responds
    \/ GetOpens \/ GetFails \/ GetNotOffered \/ Reconnects \/ ListenQuits
    \/ ServerSays \/ EventLine \/ EventEnds \/ HttpDrop

\* Time limits pass and the threads run; the server owes nothing.
HttpFair ==
    /\ WF_httpVars(HeadLate) /\ WF_httpVars(BodyLate)
    /\ WF_httpVars(ListenQuits)

HttpSpec == HttpInit /\ [][HttpNext]_httpVars /\ HttpFair

-----------------------------------------------------------------------------
(* Properties.                                                             *)

\* Nothing is done twice.  A request is executed once at the most, although
\* connections are tried again and workers are left behind, and the answer a
\* call returns is that of its own request, which was executed.  The events of
\* the GET stream are handled in order, each once, with none missing from the
\* first on, however often the stream breaks and wherever in an event, as long
\* as the server replays from Last-Event-ID.
HttpOnce ==
    /\ \A i \in Posts : executed[i] + arrived[i] <= 1
    /\ \A i \in DOMAIN ends :
          ends[i].how = "answered" => ends[i].id = i /\ executed[i] = 1
    /\ \A k \in DOMAIN handled : k > 1 => handled[k] = handled[k - 1] + 1

\* A message comes to an end even if the server streams other things for
\* ever, and the manager ends once the server is dropped.
HttpEnds ==
    /\ (post.pc # "idle") ~> (post.pc = "idle")
    /\ (shutdown /\ listen.pc # "off") ~> (listen.pc = "over")
=============================================================================
