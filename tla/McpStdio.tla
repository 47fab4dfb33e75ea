------------------------------ MODULE McpStdio ------------------------------
(***************************************************************************)
(* src/src/mcp.rs: one MCP server spoken to over the pipes of a child      *)
(* process.  The driver's thread (the caller) sends requests and waits for *)
(* the answers; a reader thread takes lines from the child's stdout, hands *)
(* answers to the caller, and answers the server's own requests, for which *)
(* it shares the child's stdin with the caller under a lock.               *)
(*                                                                         *)
(* A pipe is a queue of lines that holds StdioCap of them: write_all waits *)
(* for room, and no timeout covers it.  The server is the environment: it  *)
(* may answer late, twice, out of order or never, ask, notify, stop to     *)
(* read, close its stdout and die; and a process that it started may leave *)
(* its group and keep both pipes open after it.                            *)
(***************************************************************************)
EXTENDS Naturals, Sequences, FiniteSets

CONSTANTS StdioCap,     \* lines a pipe holds
          StdioCalls,   \* bound: requests sent
          StdioLines,   \* bound: lines the server writes
          ReadsAlways   \* the server reads its stdin also while it writes

ASSUME StdioAssumption ==
    /\ StdioCap \in Nat \ {0} /\ StdioCalls \in Nat /\ StdioLines \in Nat
    /\ ReadsAlways \in BOOLEAN

VARIABLES stage,    \* how far the server object is: the handshake, "up", "gone"
          caller,   \* the thread in send_request
          nextId,   \* next_id
          pending,  \* ids with a sender in the map
          inbox,    \* the answer in the call's channel, if any
          results,  \* results[i]: how request i ended, and whose answer it got
          offers,   \* the server advertised resources
          reader,   \* the reader thread, and the line it holds
          up,       \* alive
          stdin,    \* who holds the lock on the child's stdin
          toServer, toClient,  \* the pipes
          server    \* the child's group: alive, requests it has read, line it
                    \* writes; and whether a process outside has its pipes

stdioVars == <<stage, caller, nextId, pending, inbox, results, offers, reader,
               up, stdin, toServer, toClient, server>>
threads   == <<stage, caller, nextId, inbox, results, offers>>

Ids      == 1..StdioCalls
Methods  == {"initialize", "tools/list", "tools/call", "resources/list"}
Request(m, i) == [kind |-> "request", method |-> m, id |-> i]
Line(k, i)    == [kind |-> k, method |-> "", id |-> i]
\* What a server writes; "noise" is an empty line or no JSON, a "notice" a
\* notification or a request whose id is not a number; and "end" a line that
\* is not UTF-8, or that it closes its stdout.
FromServer == {Line("answer", i) : i \in Ids}
              \cup {Line(k, 0) : k \in {"request", "notice", "noise", "end"}}
ToServer   == {Request(m, i) : m \in Methods, i \in Ids}
              \cup {Line("notice", 0), Line("refusal", 0)}
Nothing    == Line("nothing", 0)

StdioTypeOK ==
    /\ stage \in {"initialize", "initialized", "tools/list", "up", "failed", "gone"}
    /\ caller \in [pc : {"idle", "lock", "write", "wait", "forget"}, line : ToServer \cup {Nothing}]
    /\ nextId \in 0..StdioCalls /\ pending \subseteq Ids
    /\ inbox \in FromServer \cup {Nothing}
    /\ results \in Seq([how : {"answered", "down", "timeout"}, id : 0..StdioCalls])
    /\ offers \in BOOLEAN /\ up \in BOOLEAN
    /\ reader \in [pc : {"read", "lock", "write", "over"}]
    /\ stdin \in {"free", "caller", "reader"}
    /\ toServer \in Seq(ToServer) /\ Len(toServer) <= StdioCap
    /\ toClient \in Seq(FromServer) /\ Len(toClient) <= StdioCap
    /\ server \in [alive : BOOLEAN, got : SUBSET Ids, line : FromServer \cup {Nothing}, said : 0..StdioLines,
                   outside : BOOLEAN]

StdioInit ==
    /\ stage = "initialize" /\ caller = [pc |-> "idle", line |-> Nothing]
    /\ nextId = 0 /\ pending = {} /\ inbox = Nothing /\ results = <<>>
    /\ offers = FALSE /\ reader = [pc |-> "read"] /\ up = TRUE /\ stdin = "free"
    /\ toServer = <<>> /\ toClient = <<>>
    /\ server = [alive |-> TRUE, got |-> {}, line |-> Nothing, said |-> 0,
                 outside |-> FALSE]

\* Somebody has the other ends of the pipes.
PipesOpen == server.alive \/ server.outside

Idle        == caller.pc = "idle"
CallerAt(l) == caller.pc = l
Quiet       == [pc |-> "idle", line |-> Nothing]

-----------------------------------------------------------------------------
(* The caller: send_request.                                               *)

\* The sender is registered before the request is written.
Register(m) ==
    /\ Idle /\ nextId < StdioCalls
    /\ nextId' = nextId + 1
    /\ pending' = pending \cup {nextId + 1}
    /\ inbox' = Nothing
    /\ caller' = [pc |-> "lock", line |-> Request(m, nextId + 1)]
    /\ UNCHANGED <<stage, results, offers, reader, up, stdin, toServer, toClient, server>>

\* initialize and tools/list; then tools/call and resources/list, which a
\* server that is down is not asked, nor one that does not offer resources
\* (McpRegistry::resources_leg).
Handshake == stage \in {"initialize", "tools/list"} /\ Register(stage)
Call      == stage = "up" /\ up /\ Register("tools/call")
Resources == stage = "up" /\ up /\ offers /\ Register("resources/list")

\* notifications/initialized goes through the same lock, and expects nothing.
Notify ==
    /\ Idle /\ stage = "initialized"
    /\ caller' = [pc |-> "lock", line |-> Line("notice", 0)]
    /\ UNCHANGED <<stage, nextId, pending, inbox, results, offers, reader, up,
                   stdin, toServer, toClient, server>>

LockStdin ==
    /\ CallerAt("lock") /\ stdin = "free"
    /\ stdin' = "caller" /\ caller' = [caller EXCEPT !.pc = "write"]
    /\ UNCHANGED <<stage, nextId, pending, inbox, results, offers, reader, up,
                   toServer, toClient, server>>

\* How a request ended, and what the handshake makes of it: any failure drops
\* the server (McpRegistry::start).
Ends(how, id) ==
    /\ results' = Append(results, [how |-> how, id |-> id])
    /\ caller' = Quiet
    /\ stage' = IF stage = "up" THEN "up"
                ELSE IF how # "answered" THEN "failed"
                ELSE IF stage = "initialize" THEN "initialized" ELSE "up"

\* write_all: room in the pipe.
Write ==
    /\ CallerAt("write") /\ PipesOpen /\ Len(toServer) < StdioCap
    /\ toServer' = Append(toServer, caller.line) /\ stdin' = "free"
    /\ IF caller.line.kind = "notice"
       THEN caller' = Quiet /\ stage' = "tools/list"
       ELSE caller' = [caller EXCEPT !.pc = "wait"] /\ UNCHANGED stage
    /\ UNCHANGED <<nextId, pending, inbox, results, offers, reader, up, toClient, server>>

\* ... and EPIPE: the entry goes, the server is down.  A notification's
\* failure is ignored.
WriteFails ==
    /\ CallerAt("write") /\ ~PipesOpen /\ stdin' = "free"
    /\ IF caller.line.kind = "notice"
       THEN /\ caller' = Quiet /\ stage' = "tools/list"
            /\ UNCHANGED <<pending, up, results>>
       ELSE /\ pending' = pending \ {caller.line.id} /\ up' = FALSE
            /\ Ends("down", 0)
    /\ UNCHANGED <<nextId, inbox, offers, reader, toServer, toClient, server>>

Receive ==
    /\ CallerAt("wait") /\ inbox # Nothing
    /\ Ends("answered", inbox.id) /\ inbox' = Nothing
    /\ offers' \in IF stage = "initialize" THEN BOOLEAN ELSE {offers}
    /\ UNCHANGED <<nextId, pending, reader, up, stdin, toServer, toClient, server>>

\* Slip: a call gives up only when the server is known to be down.
TimesOut_Down ==
    /\ CallerAt("wait") /\ inbox = Nothing /\ ~up
    /\ caller' = [caller EXCEPT !.pc = "forget"]
    /\ UNCHANGED <<stage, nextId, pending, inbox, results, offers, reader, up,
                   stdin, toServer, toClient, server>>

\* recv_timeout gives up; an answer may still come before the entry is gone.
TimesOut ==
    /\ CallerAt("wait") /\ inbox = Nothing
    /\ caller' = [caller EXCEPT !.pc = "forget"]
    /\ UNCHANGED <<stage, nextId, pending, inbox, results, offers, reader, up,
                   stdin, toServer, toClient, server>>

Forget ==
    /\ CallerAt("forget")
    /\ pending' = pending \ {caller.line.id} /\ inbox' = Nothing
    /\ Ends("timeout", 0)
    /\ UNCHANGED <<nextId, offers, reader, up, stdin, toServer, toClient, server>>

-----------------------------------------------------------------------------
(* The reader thread.                                                      *)

\* Slip: whoever waits gets the answer.
Delivered_ToAny(m) == m.kind = "answer" /\ pending # {}

\* The answer of a request that is still waited for.
Delivered(m) == m.kind = "answer" /\ m.id \in pending

ReadLine ==
    /\ reader.pc = "read" /\ toClient # <<>>
    /\ LET m == Head(toClient)
       IN  /\ IF Delivered(m)
              THEN pending' = pending \ {m.id} /\ inbox' = m
              ELSE UNCHANGED <<pending, inbox>>
           /\ reader' = CASE m.kind = "request" -> [pc |-> "lock"]
                          [] m.kind = "end"     -> [pc |-> "over"]
                          [] OTHER              -> reader
           /\ up' = (up /\ m.kind # "end")
    /\ toClient' = Tail(toClient)
    /\ UNCHANGED <<stage, caller, nextId, results, offers, stdin, toServer, server>>

ReaderLocks ==
    /\ reader.pc = "lock" /\ stdin = "free"
    /\ stdin' = "reader" /\ reader' = [pc |-> "write"]
    /\ UNCHANGED <<threads, pending, up, toServer, toClient, server>>

\* "method not found", which the server waits for; errors are ignored.
Refuses ==
    /\ reader.pc = "write"
    /\ \/ PipesOpen /\ Len(toServer) < StdioCap
          /\ toServer' = Append(toServer, Line("refusal", 0))
       \/ ~PipesOpen /\ UNCHANGED toServer
    /\ stdin' = "free" /\ reader' = [pc |-> "read"]
    /\ UNCHANGED <<threads, pending, up, toClient, server>>

\* EOF: nobody has the pipe any more.  Nobody tells the call that waits.
ReaderEnds ==
    /\ reader.pc = "read" /\ toClient = <<>> /\ ~PipesOpen
    /\ up' = FALSE /\ reader' = [pc |-> "over"]
    /\ UNCHANGED <<threads, pending, stdin, toServer, toClient, server>>

-----------------------------------------------------------------------------
(* The server, with all processes of its group, and one outside.           *)

ServerReads ==
    /\ server.alive /\ toServer # <<>> /\ (ReadsAlways \/ server.line = Nothing)
    /\ LET m == Head(toServer)
       IN  server' = IF m.kind = "request"
                     THEN [server EXCEPT !.got = @ \cup {m.id}] ELSE server
    /\ toServer' = Tail(toServer)
    /\ UNCHANGED <<threads, pending, reader, up, stdin, toClient>>

\* It answers what it has read, or writes something of its own.
ServerSpeaks ==
    /\ server.alive /\ server.line = Nothing /\ server.said < StdioLines
    /\ \E m \in FromServer :
          /\ m.kind = "answer" => m.id \in server.got
          /\ server' = [server EXCEPT !.line = m, !.said = @ + 1]
    /\ UNCHANGED <<threads, pending, reader, up, stdin, toServer, toClient>>

\* The reader that is over has closed the pipe: the line goes nowhere.
ServerWrites ==
    /\ server.alive /\ server.line # Nothing
    /\ \/ reader.pc = "over" /\ UNCHANGED toClient
       \/ /\ reader.pc # "over" /\ Len(toClient) < StdioCap
          /\ toClient' = Append(toClient, server.line)
    /\ server' = [server EXCEPT !.line = Nothing]
    /\ UNCHANGED <<threads, pending, reader, up, stdin, toServer>>

ServerDies ==
    /\ server.alive /\ server' = [server EXCEPT !.alive = FALSE]
    /\ UNCHANGED <<threads, pending, reader, up, stdin, toServer, toClient>>

\* A process that the server started leaves its group; later it ends.
Escapes ==
    /\ server.alive /\ ~server.outside /\ server' = [server EXCEPT !.outside = TRUE]
    /\ UNCHANGED <<threads, pending, reader, up, stdin, toServer, toClient>>

OutsiderEnds ==
    /\ server.outside /\ server' = [server EXCEPT !.outside = FALSE]
    /\ UNCHANGED <<threads, pending, reader, up, stdin, toServer, toClient>>

\* Drop, at the end of the run or after a failed handshake: the process group
\* is killed.  The reader is joined with a limit, and leaked if it has not
\* ended by then, so that the caller goes on.
DropServer ==
    /\ Idle /\ stage \in {"up", "failed"}
    /\ stage' = "gone" /\ server' = [server EXCEPT !.alive = FALSE]
    /\ UNCHANGED <<caller, nextId, pending, inbox, results, offers, reader, up,
                   stdin, toServer, toClient>>

-----------------------------------------------------------------------------
CallerSteps == LockStdin \/ Write \/ WriteFails \/ Receive \/ TimesOut \/ Forget
ReaderSteps == ReadLine \/ ReaderLocks \/ Refuses \/ ReaderEnds

StdioNext ==
    \/ Handshake \/ Notify \/ Call \/ Resources \/ DropServer
    \/ CallerSteps \/ ReaderSteps
    \/ ServerReads \/ ServerSpeaks \/ ServerWrites \/ ServerDies
    \/ Escapes \/ OutsiderEnds

\* The threads run, and the time limit of a wait passes.  Nothing is asked of
\* the server.
StdioFair ==
    /\ SF_stdioVars(LockStdin) /\ WF_stdioVars(CallerSteps)
    /\ SF_stdioVars(ReaderLocks) /\ WF_stdioVars(ReaderSteps)

StdioSpec == StdioInit /\ [][StdioNext]_stdioVars /\ StdioFair

\* The same with a server that lives until it is dropped, starts nobody
\* outside its group, and goes on reading and writing.
Willing == ~server'.outside /\ (server'.alive \/ stage' = "gone")

WillingSpec ==
    /\ StdioInit /\ [][StdioNext /\ Willing]_stdioVars /\ StdioFair
    /\ WF_stdioVars(ServerReads) /\ WF_stdioVars(ServerWrites)

-----------------------------------------------------------------------------
(* Properties.                                                             *)

\* Every call that returns an answer returns the answer to its own request,
\* whatever the server said late, twice or of other requests; and a request
\* that is over leaves no entry for them: what is pending is under way.
OwnAnswer ==
    /\ \A i \in DOMAIN results : results[i].how = "answered" => results[i].id = i
    /\ pending \subseteq IF caller.line.kind = "request" THEN {caller.line.id} ELSE {}

\* As long as the child's stdin does not stay full for good, every call comes
\* back, with an answer or an error: whether the server answers, babbles, dies,
\* closes its stdout or says what the reader cannot read, and also where the
\* two threads want to write at once.  And once the server is gone and nobody
\* else has its pipes, the reader thread ends.
Writable == Len(toServer) < StdioCap \/ ~PipesOpen

CallReturns ==
    /\ []<>Writable => (caller.pc # "idle") ~> (caller.pc = "idle")
    /\ (stage = "gone" /\ ~server.outside) ~> (reader.pc = "over")

\* "never a panic, never a hang (the leg reuses the CALL timeout)", mcp.rs says
\* of the resources leg: the request comes back.
ResourcesReturn ==
    (caller.line.kind = "request" /\ caller.line.method = "resources/list")
        ~> (caller.pc = "idle")
=============================================================================
