----------------------------- MODULE McpManager -----------------------------
(***************************************************************************)
(* The connection to one MCP server                                        *)
(* (apps/desktop/src/main/mcp/manager.ts), with the client and the child   *)
(* process under it (packages/mcp-client/src/client.ts and                 *)
(* stdio-transport.ts). Servers share nothing but the tool registry, where *)
(* the names of a server's tools begin with its id: one server is enough.  *)
(*                                                                         *)
(* connectServer(), setServerEnabled() and removeServer() await the        *)
(* process: several calls may be under way at once, each with the runtime  *)
(* record it has found. A client is "mine" as long as the record its       *)
(* connectServer() holds is the one in the map. The entry every            *)
(* connectServer() was called with is enabled, whatever the settings say   *)
(* by now, so the checks of it never stop anything.                        *)
(*                                                                         *)
(* A server offers the same tools every time; they are one here. Left out: *)
(* resources and prompts, the length of a delay and the notice to the      *)
(* user, the health statistics, servers reached by HTTP, the calls of      *)
(* tools, and the end of the process.                                      *)
(***************************************************************************)
EXTENDS Naturals, FiniteSets, FiniteSetsExt

CONSTANTS
    MaxClients,     \* bound: clients that matter at once
    MaxTimers,      \* bound: timers armed that nobody can clear
    MaxEdits        \* bound: settings calls

ASSUME McpAssumption == MaxClients \in Nat \ {0} /\ {MaxTimers, MaxEdits} \subseteq Nat

Ids  == 1 .. MaxClients
None == 0

VARIABLES
    entry,      \* the server in the settings
    mgr,        \* runtime, clients, the tool registry, timers
    crossed,    \* history: an operation began while another was under way
    edits       \* settings calls (bound)

vars == <<entry, mgr, crossed, edits>>

Statuses == {"disconnected", "connecting", "connected", "error", "disabled"}

\* A RuntimeState: timer is reconnectTimer, listed whether registeredTools is not empty.
Runtime == [client: Ids \cup {None}, status: Statuses, timer: BOOLEAN, listed: BOOLEAN]

\* link: its process; listing: refreshCounts() awaits its tools; then: who awaits its end.
Client == [link: {"starting", "up", "stopping", "gone"}, listing: BOOLEAN, mine: BOOLEAN,
           then: {"nobody", "connect", "disable", "remove", "fail"}]

NewRuntime == [client |-> None, status |-> "disconnected", timer |-> FALSE, listed |-> FALSE]
NoClient   == [link |-> "gone", listing |-> FALSE, mine |-> FALSE, then |-> "nobody"]

TypeOK ==
    /\ entry \in {"absent", "enabled", "disabled"}
    /\ mgr \in [rt: Runtime, client: [Ids -> Client], tools: Ids \cup {None},
                loose: 0 .. MaxTimers]
    /\ crossed \in BOOLEAN
    /\ edits \in 0 .. MaxEdits

-----------------------------------------------------------------------------
(* The synchronous parts, as functions of the manager's state              *)

\* unregisterServerTools(): by name, whichever client a tool calls.
Unregister(m) ==
    [m EXCEPT !.tools = IF m.rt.listed THEN None ELSE @, !.rt.listed = FALSE]

\* scheduleReconnect(): a timer that was armed goes on, and nobody can clear it.
Reconnect(m) ==
    [m EXCEPT !.loose = IF m.rt.timer THEN @ + 1 ELSE @, !.rt.timer = TRUE]

\* (mutant) The tools stay when the connection ends.
DroppedKeepingTools(m, c) ==
    IF m.rt.client # c
    THEN m
    ELSE Reconnect([m EXCEPT !.rt.client = None, !.rt.status = "disconnected"])

\* The listener connectServer() has given to client.onClose().
Dropped(m, c) ==
    IF m.rt.client # c
    THEN m
    ELSE Reconnect(Unregister([m EXCEPT !.rt.client = None, !.rt.status = "disconnected"]))

\* runtime.delete(): the record lives on in the calls that hold it, and so does its timer.
Deleted(m) ==
    [m EXCEPT !.rt = NewRuntime,
              !.loose = IF m.rt.timer THEN @ + 1 ELSE @,
              !.client = [c \in Ids |-> [m.client[c] EXCEPT !.mine = FALSE]]]

\* Clients nothing depends on any more.
Free(m) == {c \in Ids : m.client[c].link = "gone" /\ m.tools # c}

\* The second half of connectServer(): a new client, whose process is started.
Spawn(m, mine) ==
    [m EXCEPT !.client[Min(Free(m))] =
                  [link |-> "starting", listing |-> FALSE, mine |-> mine, then |-> "nobody"],
              !.rt.status = IF mine THEN "connecting" ELSE @]

\* disconnect() of a client that is still connected: its process is told to end.
Stop(m, c, then) ==
    [m EXCEPT !.client[c] = [@ EXCEPT !.link = "stopping", !.mine = TRUE, !.then = then]]

\* Of a client that is being stopped already, disconnect() returns at once.
InPlaceUp(m) == m.rt.client # None /\ m.client[m.rt.client].link = "up"

\* connectServer(), up to its first await.
ConnectServer(m) ==
    LET cleared == [m EXCEPT !.rt.timer = FALSE] IN
    IF InPlaceUp(m)
    THEN Stop(cleared, m.rt.client, "connect")
    ELSE Spawn([cleared EXCEPT !.rt.client = None], TRUE)

\* (mutant) A failed attempt is the last.
FailedForGood(m, mine) ==
    IF mine THEN [m EXCEPT !.rt.status = "error", !.rt.client = None] ELSE m

\* The catch of connectServer().
Failed(m, mine) ==
    Reconnect(IF mine THEN [m EXCEPT !.rt.status = "error", !.rt.client = None] ELSE m)

\* What is awaited of a process that has ended goes on.
Resumed(m, then, mine) ==
    CASE then = "nobody"  -> m
      [] then = "connect" -> Spawn(IF mine THEN [m EXCEPT !.rt.client = None] ELSE m, mine)
      [] then = "disable" -> IF mine
                             THEN [m EXCEPT !.rt.client = None, !.rt.status = "disabled"]
                             ELSE m
      [] then = "remove"  -> Deleted(m)
      [] then = "fail"    -> Failed(m, mine)

-----------------------------------------------------------------------------

\* startAllServers(), with what the settings hold.
Init ==
    LET idle == [rt |-> NewRuntime, client |-> [c \in Ids |-> NoClient], tools |-> None,
                 loose |-> 0]
    IN  /\ entry \in {"absent", "enabled", "disabled"}
        /\ mgr = IF entry = "enabled" THEN ConnectServer(idle) ELSE idle
        /\ crossed = FALSE
        /\ edits = 0

Busy == \E c \in Ids : mgr.client[c].link \in {"starting", "stopping"} \/ mgr.client[c].listing

Becomes(m) == m.loose <= MaxTimers /\ mgr' = m

\* An operation begins.
Begins(m) ==
    /\ Free(mgr) # {}
    /\ Becomes(m)
    /\ crossed' = (crossed \/ Busy)

Settings(state, m) ==
    /\ edits < MaxEdits
    /\ edits' = edits + 1
    /\ entry' = state
    /\ Begins(m)

\* addServer()
AddServer == entry = "absent" /\ Settings("enabled", ConnectServer(mgr))

\* setServerEnabled(id, true)
EnableServer == entry = "disabled" /\ Settings("enabled", ConnectServer(mgr))

\* setServerEnabled(id, false)
DisableServer ==
    LET quiet == Unregister([mgr EXCEPT !.rt.timer = FALSE]) IN
    /\ entry = "enabled"
    /\ Settings("disabled",
          IF InPlaceUp(mgr)
          THEN Stop(quiet, mgr.rt.client, "disable")
          ELSE [quiet EXCEPT !.rt.client = None, !.rt.status = "disabled"])

\* removeServer()
RemoveServer ==
    LET quiet == [Unregister(mgr) EXCEPT !.rt.timer = FALSE] IN
    /\ entry # "absent"
    /\ Settings("absent", IF InPlaceUp(mgr) THEN Stop(quiet, mgr.rt.client, "remove")
                                            ELSE Deleted(quiet))

\* A reconnect timer fires: connectServer() with the entry of then.
TimerFires ==
    /\ \/ mgr.rt.timer /\ Begins(ConnectServer(mgr))
       \/ mgr.loose > 0 /\ Begins(ConnectServer([mgr EXCEPT !.loose = @ - 1]))
    /\ UNCHANGED <<entry, edits>>

\* The server answers initialize: connect() has succeeded, and refreshCounts() begins.
InitializeAnswered(c) ==
    LET mine == mgr.client[c].mine
        up   == [mgr EXCEPT !.client[c] = [@ EXCEPT !.link = "up", !.listing = TRUE,
                                                    !.mine = TRUE],
                            !.rt.client = IF mine THEN c ELSE @,
                            !.rt.status = IF mine THEN "connected" ELSE @]
    IN  /\ mgr.client[c].link = "starting"
        /\ Becomes(Unregister(up))

\* initialize times out, or its answer will not do: connect() ends the process.
InitializeFails(c) ==
    /\ mgr.client[c].link = "starting"
    /\ Becomes([mgr EXCEPT !.client[c] = [@ EXCEPT !.link = "stopping", !.then = "fail"]])

\* The server answers tools/list, perhaps while it is being stopped.
ToolsListed(c) ==
    LET listed == [mgr EXCEPT !.client[c].listing = FALSE] IN
    /\ mgr.client[c].listing
    /\ Becomes(IF mgr.tools # None
               THEN listed
               ELSE [listed EXCEPT !.tools = c,
                                   !.rt.listed = @ \/ mgr.client[c].mine])

\* tools/list fails or times out.
ListingFails(c) ==
    /\ mgr.client[c].listing
    /\ Becomes([mgr EXCEPT !.client[c].listing = FALSE])

\* The process has ended, of itself or because it was told to: what is pending at its
\* client fails, the listener runs, and then whatever awaited the end or an answer.
ProcessEnds(c) ==
    LET cl    == mgr.client[c]
        ended == Dropped([mgr EXCEPT !.client[c] = [cl EXCEPT !.link = "gone",
                              !.listing = FALSE, !.mine = FALSE, !.then = "nobody"]], c)
    IN  /\ cl.link # "gone"
        /\ Free(ended) # {}
        /\ Becomes(Resumed(ended, IF cl.link = "starting" THEN "fail" ELSE cl.then, cl.mine))

Next ==
    \/ AddServer
    \/ EnableServer
    \/ DisableServer
    \/ RemoveServer
    \/ TimerFires
    \/ /\ \E c \in Ids : \/ InitializeAnswered(c)
                         \/ InitializeFails(c)
                         \/ ToolsListed(c)
                         \/ ListingFails(c)
                         \/ ProcessEnds(c)
       /\ UNCHANGED <<entry, crossed, edits>>

Spec == Init /\ [][Next]_vars

-----------------------------------------------------------------------------
(* Properties                                                              *)

Live(c) == mgr.client[c].link # "gone"

\* What the manager calls connected, and offers to the user, has a process that has not
\* ended, whatever has crossed. And as long as no two operations have, there is never a
\* second process, and the tools in the registry call the one that is in place, which
\* will take them out again (onClose and refreshCounts() in manager.ts).
ToolsAnswer ==
    /\ mgr.rt.status = "connected" <=> mgr.rt.client # None
    /\ mgr.rt.client # None => mgr.client[mgr.rt.client].link \in {"up", "stopping"}
    /\ ~crossed =>
          /\ \A c, d \in Ids : Live(c) /\ Live(d) => c = d
          /\ mgr.tools # None => mgr.tools = mgr.rt.client /\ mgr.rt.listed

\* As long as no two operations have crossed, an enabled server is never given up: it is
\* connected, or an attempt is under way, or a timer will make one (the catch and the
\* listener of connectServer() in manager.ts).
EnabledServed ==
    ~crossed /\ entry = "enabled" =>
        \/ InPlaceUp(mgr)
        \/ mgr.rt.timer
        \/ mgr.loose > 0
        \/ \E c \in Ids : \/ mgr.client[c].link = "starting"
                          \/ mgr.client[c].then \in {"connect", "fail"}

-----------------------------------------------------------------------------
(* What the list of features promises and the code does not do             *)

\* "unregister on disconnect/remove/disable" (Todo.md:113), "transport close -> reconnect
\* when enabled" (Todo.md:117): a disabled server has no tool in the registry once nothing
\* is under way, even when no two operations have crossed.
DisabledToolsGone == entry = "disabled" /\ ~Busy /\ ~crossed => mgr.tools = None
=============================================================================
