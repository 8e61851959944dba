------------------------------ MODULE McpClient ------------------------------
(***************************************************************************)
(* One client of an MCP server (packages/mcp-client/src/client.ts) over    *)
(* any of its three transports (stdio-transport.ts, sse-transport.ts,      *)
(* http-transport.ts): connect() with its handshake, calls with their      *)
(* timers, the end of the transport, disconnect(). What is done with       *)
(* clients is McpManager; what it takes for granted of them is ServerLink. *)
(*                                                                         *)
(* The server is external: it may refuse, answer anything or nothing, and  *)
(* leave at any time. A call is the promise of request(): the map pending, *)
(* its timer and its state change together. An answer to a call that is    *)
(* not pending is dropped and is no step here. Left out: notifications and *)
(* requests of the server, the notice of a timeout, pages of a list,       *)
(* sessions and the listening channel of HTTP, messages that are not valid.*)
(***************************************************************************)
EXTENDS Naturals

CONSTANT MaxRpcs        \* bound: calls of one client, initialize among them

ASSUME ClientAssumption == MaxRpcs \in Nat \ {0}

RpcIds     == 1 .. MaxRpcs
Initialize == 1

VARIABLE rpc

\* at: the await connect() stands at, or how it ended; link: the process or the stream;
\* usable: send() gets past its check; cause (history): the server has refused, failed,
\* left or kept the client waiting.
ClientTypeOK ==
    rpc \in [kind : {"stdio", "sse", "http"}, connected : BOOLEAN, usable : BOOLEAN,
             at : {"new", "start", "initialize", "notify", "stop", "up", "rejected"},
             link : {"none", "open", "closing", "closed"}, cause : BOOLEAN,
             call : [RpcIds -> {"none", "waiting", "answered", "failed"}]]

ClientInit ==
    \E kind \in {"stdio", "sse", "http"} :
        rpc = [kind |-> kind, at |-> "new", link |-> "none", usable |-> FALSE,
               connected |-> FALSE, cause |-> FALSE, call |-> [id \in RpcIds |-> "none"]]

-----------------------------------------------------------------------------
(* Parts of the steps, as functions of the client's state                  *)

\* The listener of the transport's end: whoever waits is told.
TransportClosed(r) ==
    [r EXCEPT !.link = "closed", !.connected = FALSE,
              !.call = [id \in RpcIds |-> IF @[id] = "waiting" THEN "failed" ELSE @[id]]]

\* stop(): a process is told to end, a stream is aborted; over HTTP that is all.
TransportStopped(r) ==
    LET going == [r EXCEPT !.link = IF @ = "open" THEN "closing" ELSE @] IN
    CASE r.kind = "stdio" -> [going EXCEPT !.usable = FALSE]
      [] r.kind = "sse"   -> going
      [] r.kind = "http"  -> TransportClosed([going EXCEPT !.usable = FALSE])

\* (mutant) The transport is left as it is.
ConnectThrowing(r) == [r EXCEPT !.connected = FALSE, !.at = "rejected"]

\* The catch of connect(): only the end of a process is waited for.
ConnectThrows(r) ==
    LET s == TransportStopped([r EXCEPT !.connected = FALSE])
    IN  [s EXCEPT !.at = IF s.kind = "stdio" /\ s.link = "closing" THEN "stop" ELSE "rejected"]

-----------------------------------------------------------------------------
(* connect()                                                               *)

\* start() and, but over SSE, initialize: neither a process nor HTTP is waited for.
ConnectBegins ==
    /\ rpc.at = "new"
    /\ rpc' = IF rpc.kind = "sse"
              THEN [rpc EXCEPT !.at = "start"]
              ELSE [rpc EXCEPT !.at = "initialize", !.link = "open", !.usable = TRUE,
                               !.connected = TRUE, !.call[Initialize] = "waiting"]

StreamRefused ==
    /\ rpc.at = "start"
    /\ rpc' = [rpc EXCEPT !.at = "rejected", !.cause = TRUE]

\* The stream is there, and start() returns. connect() goes on before anything can be
\* read of the stream, the event that tells where to post among it: send() refuses.
StreamStarts ==
    /\ rpc.at = "start"
    /\ rpc' = ConnectThrows([rpc EXCEPT !.link = "open", !.call[Initialize] = "failed"])

\* The result will do: notifications/initialized is sent.
InitializeAccepted ==
    /\ rpc.at = "initialize"
    /\ rpc' = [rpc EXCEPT !.at = "notify", !.call[Initialize] = "answered"]

\* An error answers it, or what will not do, or nothing in time; or it cannot be sent.
InitializeRejected ==
    /\ rpc.at = "initialize"
    /\ rpc' = ConnectThrows([rpc EXCEPT !.cause = TRUE, !.call[Initialize] = "failed"])

\* What is written to a process that has ended fails.
Notified ==
    /\ rpc.at = "notify" /\ rpc.link = "open"
    /\ rpc' = [rpc EXCEPT !.at = "up"]

NotifyFails ==
    /\ rpc.at = "notify"
    /\ rpc' = ConnectThrows([rpc EXCEPT !.cause = TRUE])

\* stop() returns though the end of the process has not been told of after SIGKILL.
StopGivesUp ==
    /\ rpc.at = "stop"
    /\ rpc' = [rpc EXCEPT !.at = "rejected"]

-----------------------------------------------------------------------------
(* Calls, the end of the transport, disconnect()                           *)

\* callTool(), listTools() and the others, also of a tool kept since before the end.
Request(id) ==
    /\ rpc.at = "up"
    /\ rpc.call[id] = "none" /\ rpc.call[id - 1] # "none"
    /\ rpc' = [rpc EXCEPT !.call[id] = IF rpc.usable THEN "waiting" ELSE "failed"]

\* handleMessage(): a result for a pending call. A process that is told to end may still
\* write one.
ResultArrives(id) ==
    /\ rpc.call[id] = "waiting"
    /\ rpc.link = "open" \/ (rpc.kind = "stdio" /\ rpc.link = "closing")
    /\ rpc' = [rpc EXCEPT !.call[id] = "answered"]

\* The answer is an error, the message cannot be sent, or the timer fires.
CallFails(id) ==
    /\ rpc.call[id] = "waiting"
    /\ rpc' = [rpc EXCEPT !.call[id] = "failed"]

\* The process has exited or the stream is over; of HTTP nobody would hear. A connect()
\* that waits for initialize, or for the end, goes on at once.
TransportEnds ==
    LET ended == TransportClosed([rpc EXCEPT !.cause = TRUE]) IN
    /\ rpc.kind # "http" /\ rpc.link \in {"open", "closing"}
    /\ rpc' = IF rpc.at \in {"initialize", "stop"} THEN ConnectThrows(ended) ELSE ended

Disconnect ==
    /\ rpc.at = "up" /\ rpc.connected
    /\ rpc' = TransportStopped([rpc EXCEPT !.connected = FALSE])

ClientStep ==
    \/ ConnectBegins \/ StreamRefused \/ StreamStarts
    \/ InitializeAccepted \/ InitializeRejected \/ Notified \/ NotifyFails \/ StopGivesUp
    \/ \E id \in RpcIds \ {Initialize} : Request(id) \/ ResultArrives(id) \/ CallFails(id)
    \/ TransportEnds
    \/ Disconnect

ClientSpec == ClientInit /\ [][ClientStep]_rpc

-----------------------------------------------------------------------------
(* Properties                                                              *)

\* What the manager sees of the transport.
LinkSeen ==
    CASE rpc.link = "closed"  -> "gone"
      [] rpc.link = "closing" -> "stopping"
      [] rpc.link \in {"none", "open"} ->
            IF rpc.at \in {"new", "start", "initialize", "notify"} THEN "starting"
            ELSE IF rpc.at = "up" THEN "up"
            ELSE IF rpc.link = "none" THEN "gone"
            ELSE "left-running"

Link == INSTANCE ServerLink WITH Calls <- RpcIds, link <- LinkSeen, call <- rpc.call

\* The client does what the manager takes for granted of it, whichever answers, timers,
\* failing sends, ends of the transport and disconnects compete: nobody who waits is
\* forgotten when the link is gone or told twice, and a connect() that has failed leaves
\* nothing running ("must tear the transport down, or the spawned child leaks",
\* client.ts:94).
ImplementsServerLink == Link!Spec

-----------------------------------------------------------------------------
(* What the guide says and the code does not do                            *)

\* "SSE - ... The server publishes a POST endpoint URL; client sends JSON-RPC requests as
\* POSTs" (website/pages/guides/mcp.mdx:17): connect() fails only when the server has
\* refused, failed, left or kept the client waiting.
ConnectFailsForCause == rpc.at = "rejected" => rpc.cause
=============================================================================
