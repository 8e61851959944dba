\* One MCP server whose process may end, answer or fail at any time; two plugins; the
\* memory backends: with calls of the window that may cross; a client over any transport;
\* the stream of any provider.
SPECIFICATION SourcesSpec
\* The calls are bounded: a disabled server then has nothing left to do.
CHECK_DEADLOCK FALSE
CONSTANTS
    MaxClients = 4
    MaxTimers = 2
    MaxEdits = 4
    MaxRpcs = 3
    p1 = p1
    p2 = p2
    Plugins <- TwoPlugins
    MaxActivations = 2
    w1 = w1
    w2 = w2
    Workspaces <- TwoWorkspaces
    MaxReloads = 3
    MaxCalls = 4
    c1 = c1
    c2 = c2
    Calls <- TwoCalls
    MaxRequests = 3
    MaxTexts = 1
INVARIANTS
    ToolsAnswer
    EnabledServed
    PluginToolsWithdrawn
    StoreFollowsUser
    MemoryFollowsSettings
PROPERTIES
    ImplementsServerLink
    ImplementsChatStream
