------------------------------ MODULE Exchanges ------------------------------
(***************************************************************************)
(* All that an iteration of the loop deals with outside its process: the   *)
(* Messages API (ApiClient), MCP servers over HTTP (McpHttp) and over      *)
(* pipes (McpStdio), commands and hooks (Shell), the operator's notes      *)
(* (SteerQueue), and the sinks its events go to (Sinks).  They share no    *)
(* state and the loop has one call under way at a time, so a behaviour of  *)
(* one with the others at rest shows all there is to it.                   *)
(***************************************************************************)
EXTENDS ApiClient, McpHttp, McpStdio, Shell, SteerQueue, Sinks

VARIABLE peer     \* the one this behaviour is about

vars == <<peer, apiVars, httpVars, stdioVars, shellVars, steerVars, sinkVars>>

TypeOK == ApiTypeOK /\ HttpTypeOK /\ StdioTypeOK /\ ShellTypeOK /\ SteerTypeOK /\ SinksTypeOK

Init == /\ ApiInit /\ HttpInit /\ StdioInit /\ ShellInit /\ SteerInit /\ SinksInit
        /\ peer \in {"api", "http", "stdio", "shell", "steer", "sinks"}

Rest(p, other) == peer = p \/ UNCHANGED other

Next ==
    /\ UNCHANGED peer
    /\ Rest("api", apiVars) /\ Rest("http", httpVars) /\ Rest("stdio", stdioVars)
    /\ Rest("shell", shellVars) /\ Rest("steer", steerVars) /\ Rest("sinks", sinkVars)
    /\ \/ peer = "api"   /\ ApiNext
       \/ peer = "http"  /\ HttpNext
       \/ peer = "stdio" /\ StdioNext
       \/ peer = "shell" /\ ShellNext
       \/ peer = "steer" /\ SteerNext
       \/ peer = "sinks" /\ SinksNext

\* Those at rest have nothing their fairness could ask for.
Fair == HttpFair /\ StdioFair /\ ShellFair /\ SteerFair /\ SinksFair

Spec == Init /\ [][Next]_vars /\ Fair
=============================================================================
