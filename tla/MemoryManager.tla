--------------------------- MODULE MemoryManager ---------------------------
(***************************************************************************)
(* The memory backends (apps/desktop/src/main/memory/manager.ts,           *)
(* local-fs-runtime.ts, index.ts): after every change of the settings or   *)
(* of the Notion token reloadMemory() puts the tools of the three backends *)
(* into the registry anew. It reads the settings at its beginning, awaits  *)
(* the token from the keychain, and reloads that cross may be answered in  *)
(* any order. The keychain (keytar) is external: it does what it is asked  *)
(* some time before the answer arrives.                                    *)
(*                                                                         *)
(* A vault path that is set is part of enabled. Left out: errors of the    *)
(* constructors, testing a connection, the status for the window, and what *)
(* the tools do; the end of the process.                                   *)
(***************************************************************************)
EXTENDS Naturals, FiniteSets, FiniteSetsExt

CONSTANTS
    Workspaces,     \* folders that may be the active workspace
    MaxReloads      \* bound: calls of the manager under way at once

ASSUME MemoryAssumption ==
    /\ IsFiniteSet(Workspaces)
    /\ MaxReloads \in Nat \ {0}

NoWorkspace == "no-workspace"
ASSUME NoWorkspaceAssumption == NoWorkspace \notin Workspaces

Reloads  == 1 .. MaxReloads
Backends == {"obsidian", "notion", "localFs"}

VARIABLES
    memory,     \* settings and token, registered tools, calls under way
    overlapped  \* history: a reload has begun while a call was under way, and none alone since

memoryVars == <<memory, overlapped>>

\* A call: writing the token, or a reload with the settings it has read at its beginning.
MemoryCall == [at: {"none", "write", "read", "answered"}, enabled: SUBSET Backends,
               token: BOOLEAN]

MemoryTypeOK ==
    /\ memory \in [enabled: SUBSET Backends, token: BOOLEAN,
                   workspace: Workspaces \cup {NoWorkspace},
                   tools: SUBSET {"obsidian", "notion"}, root: Workspaces \cup {NoWorkspace},
                   call: [Reloads -> MemoryCall]]
    /\ overlapped \in BOOLEAN

NoCall == [at |-> "none", enabled |-> {}, token |-> FALSE]

UnderWay(m) == {j \in Reloads : m.call[j].at # "none"}

-----------------------------------------------------------------------------

With(m, backend, on) == [m EXCEPT !.tools = IF on THEN @ \cup {backend} ELSE @ \ {backend}]

\* reloadMemory() up to its await: applyObsidian(), and getSecret() is called.
ReloadBegins(m, j) ==
    With([m EXCEPT !.call[j] = [at |-> "read", enabled |-> m.enabled, token |-> FALSE]],
         "obsidian", "obsidian" \in m.enabled)

\* applyLocalFsBackend(): the tools are bound to the workspace that is active now.
ApplyLocalFsBackend(m) ==
    [m EXCEPT !.root = IF "localFs" \in m.enabled THEN m.workspace ELSE NoWorkspace]

\* startMemory() and, beside it, applyLocalFsBackend(), with any settings.
MemoryInit ==
    \E enabled \in SUBSET Backends, token \in BOOLEAN,
       workspace \in Workspaces \cup {NoWorkspace} :
        /\ memory = ApplyLocalFsBackend(ReloadBegins(
                        [enabled |-> enabled, token |-> token, workspace |-> workspace,
                         tools |-> {}, root |-> NoWorkspace,
                         call |-> [j \in Reloads |-> NoCall]], 1))
        /\ overlapped = FALSE

Idle == Reloads \ UnderWay(memory)

\* A reload begins beside other calls, or alone.
Reloading(m, j) ==
    /\ memory' = ReloadBegins(m, j)
    /\ overlapped' = (UnderWay(m) \ {j} # {})

\* applyMemoryConfig()
ApplyMemoryConfig ==
    \E enabled \in SUBSET Backends :
        /\ Idle # {}
        /\ Reloading([memory EXCEPT !.enabled = enabled], Min(Idle))

\* setNotionToken(), clearNotionToken(), up to the keychain.
ChangeNotionToken ==
    \E token \in BOOLEAN :
        /\ Idle # {}
        /\ memory' = [memory EXCEPT !.call[Min(Idle)] =
                         [at |-> "write", enabled |-> {}, token |-> token]]
        /\ UNCHANGED overlapped

\* (mutant) The tools stay where they are until the next reload.
SwitchWorkspaceOnly ==
    \E workspace \in (Workspaces \cup {NoWorkspace}) \ {memory.workspace} :
        /\ memory' = [memory EXCEPT !.workspace = workspace]
        /\ UNCHANGED overlapped

\* Another workspace is made the active one, and who listens to that setting puts the
\* local tools in anew.
SwitchWorkspace ==
    \E workspace \in (Workspaces \cup {NoWorkspace}) \ {memory.workspace} :
        /\ memory' = ApplyLocalFsBackend([memory EXCEPT !.workspace = workspace])
        /\ UNCHANGED overlapped

-----------------------------------------------------------------------------

\* The keychain has written: the reload of the same call begins.
TokenWritten(j) ==
    /\ memory.call[j].at = "write"
    /\ Reloading([memory EXCEPT !.token = memory.call[j].token], j)

\* The keychain reads the token; its answer is on its way.
TokenRead(j) ==
    /\ memory.call[j].at = "read"
    /\ memory' = [memory EXCEPT !.call[j].at = "answered", !.call[j].token = memory.token]
    /\ UNCHANGED overlapped

\* applyNotion() goes on with the token, and the rest of reloadMemory() follows.
ReloadEnds(j) ==
    LET call == memory.call[j] IN
    /\ call.at = "answered"
    /\ memory' = ApplyLocalFsBackend(
                    With([memory EXCEPT !.call[j] = NoCall],
                         "notion", "notion" \in call.enabled /\ call.token))
    /\ UNCHANGED overlapped

MemoryUserStep == ApplyMemoryConfig \/ ChangeNotionToken \/ SwitchWorkspace

MemoryStep == \E j \in Reloads : TokenWritten(j) \/ TokenRead(j) \/ ReloadEnds(j)

MemorySpec == MemoryInit /\ [][MemoryUserStep \/ MemoryStep]_memoryVars

-----------------------------------------------------------------------------
(* Property                                                                *)

\* When no call is under way, the tools in the registry are those of the settings as
\* they are, for Notion with the present token and unless reloads have overlapped
\* (reloadMemory() in manager.ts takes its settings from before its await, the local
\* ones from after); and never do the local tools work on a workspace that is not active.
MemoryFollowsSettings ==
    /\ memory.root \in {memory.workspace, NoWorkspace}
    /\ UnderWay(memory) = {} =>
          /\ "obsidian" \in memory.tools <=> "obsidian" \in memory.enabled
          /\ ~overlapped =>
                ("notion" \in memory.tools <=> "notion" \in memory.enabled /\ memory.token)
          /\ memory.root = IF "localFs" \in memory.enabled THEN memory.workspace ELSE NoWorkspace
=============================================================================
