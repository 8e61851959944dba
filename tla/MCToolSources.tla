--------------------------- MODULE MCToolSources ---------------------------
(***************************************************************************)
(* What the agent loop draws on, for TLC: the three sources of tools       *)
(* beside the built-in ones, the client of an MCP server, and the          *)
(* provider's stream. The three put their tools into one registry under    *)
(* names of their own (mcp__, plugin__, and the fixed names of the memory  *)
(* tools), what McpManager needs of a client is in ServerLink, and the     *)
(* five share nothing else: every behaviour has one of them active and the *)
(* others unused, as what they do does not depend on where the others are. *)
(***************************************************************************)
EXTENDS McpManager, McpClient, PluginManager, MemoryManager, ProviderStreams

CONSTANTS p1, p2, w1, w2, c1, c2, MaxCalls

TwoPlugins    == {p1, p2}
TwoWorkspaces == {w1, w2}
TwoCalls      == {c1, c2}

VARIABLES source, calls

sourceVars == <<vars, rpc, pluginVars, memoryVars, chat, source, calls>>

SourcesInit ==
    /\ Init
    /\ ClientInit
    /\ PluginInit
    /\ MemoryInit
    /\ StreamInit
    /\ calls = 0
    /\ source \in {"mcp", "client", "plugins", "memory", "stream"}
    /\ source # "mcp" => entry = "absent"
    /\ source # "client" => rpc.kind = "stdio"
    /\ source # "plugins" => plug.stored = {}
    /\ source # "memory" => memory.enabled = {} /\ ~memory.token /\ memory.workspace = NoWorkspace
    /\ source # "stream" => chat.provider = "openai"

Counted == calls < MaxCalls /\ calls' = calls + 1

SourcesNext ==
    \/ /\ source = "mcp"
       /\ Next
       /\ UNCHANGED <<rpc, pluginVars, memoryVars, chat, source, calls>>
    \/ /\ source = "client"
       /\ ClientStep
       /\ UNCHANGED <<vars, pluginVars, memoryVars, chat, source, calls>>
    \/ /\ source = "plugins"
       /\ \/ PluginStep /\ UNCHANGED calls
          \/ \E p \in Plugins : PluginUserStep(p) /\ Counted
       /\ UNCHANGED <<vars, rpc, memoryVars, chat, source>>
    \/ /\ source = "memory"
       /\ \/ MemoryStep /\ UNCHANGED calls
          \/ MemoryUserStep /\ Counted
       /\ UNCHANGED <<vars, rpc, pluginVars, chat, source>>
    \/ /\ source = "stream"
       /\ StreamStep
       /\ UNCHANGED <<vars, rpc, pluginVars, memoryVars, source, calls>>

SourcesSpec == SourcesInit /\ [][SourcesNext]_sourceVars
=============================================================================
