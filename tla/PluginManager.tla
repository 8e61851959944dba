--------------------------- MODULE PluginManager ---------------------------
(***************************************************************************)
(* Plugins of the main process                                             *)
(* (apps/desktop/src/main/plugins/manager.ts): their install, activation   *)
(* and withdrawal, what they register, and their list in the settings.     *)
(*                                                                         *)
(* activatePlugin() awaits the check of the signature, the import of the   *)
(* module and the plugin's own activate(); calls of the window, and the    *)
(* loader that works through the stored list at a start, go on meanwhile.  *)
(* Everything else is synchronous. What a plugin contributes (tools,       *)
(* runners, commands) is registered as one; a provider has an id of its    *)
(* own, which several plugins may choose: it is the same for all here. A   *)
(* plugin registers while it is being activated. After an uninstall the    *)
(* activation goes on with a record nobody looks at.                       *)
(*                                                                         *)
(* Left out: panels, manifests and engine ranges, the consent log,         *)
(* signatures (a check ends either way), downloads, what plugins do. The   *)
(* list in the settings is what the end of the process leaves, and every   *)
(* such list is an initial state.                                          *)
(***************************************************************************)
EXTENDS Naturals, FiniteSets, FiniteSetsExt

CONSTANTS
    Plugins,        \* ids, each made up by one install
    MaxActivations  \* bound: activations under way besides the loader's

ASSUME PluginAssumption ==
    /\ IsFiniteSet(Plugins)
    /\ MaxActivations \in Nat \ {0}

NoPlugin == "no-plugin"
ASSUME NoPluginAssumption == NoPlugin \notin Plugins

Loader  == 0
Callers == Loader .. MaxActivations

VARIABLES
    plug,       \* runtime, registries, the stored list, activations, the loader
    life,       \* history: installed and uninstalled by the user
    cut,        \* history: plugins last disabled while an activation was under way
    passedOver  \* history: plugins a list was stored without, or whose files were not read

pluginVars == <<plug, life, cut, passedOver>>

\* A RuntimeState: granted whether all permissions are, listed whether it has registered.
PluginRuntime ==
    [enabled: BOOLEAN, granted: BOOLEAN, listed: BOOLEAN,
     status: {"absent", "disabled", "pending-permissions", "loaded", "failed", "tampered"}]

StoredPlugin == [id: Plugins, enabled: BOOLEAN, granted: BOOLEAN]

Activation == [of: Plugins \cup {NoPlugin}, at: {"none", "verify", "activate"}]

PluginTypeOK ==
    /\ plug \in [rt: [Plugins -> PluginRuntime], tools: SUBSET Plugins,
                 provider: Plugins \cup {NoPlugin}, stored: SUBSET StoredPlugin,
                 unread: SUBSET StoredPlugin, activation: [Callers -> Activation]]
    /\ life \in [Plugins -> {"new", "installed", "gone"}]
    /\ {cut, passedOver} \subseteq SUBSET Plugins

AbsentPlugin == [enabled |-> FALSE, granted |-> FALSE, listed |-> FALSE, status |-> "absent"]
NoActivation == [of |-> NoPlugin, at |-> "none"]

Present(p) == plug.rt[p].status # "absent"

-----------------------------------------------------------------------------
(* The synchronous parts, as functions of the manager's state              *)

\* persist(): the list is what the runtime holds now.
Persisted(m) ==
    [m EXCEPT !.stored = {[id |-> p, enabled |-> m.rt[p].enabled, granted |-> m.rt[p].granted] :
                          p \in {q \in Plugins : m.rt[q].status # "absent"}}]

\* deactivatePlugin()
Deactivated(m, p) ==
    [m EXCEPT !.tools = @ \ {p},
              !.provider = IF @ = p THEN NoPlugin ELSE @,
              !.rt[p].listed = FALSE]

\* activatePlugin() up to its first await.
ActivationBegins(m, p, c) ==
    IF m.rt[p].enabled
    THEN [m EXCEPT !.activation[c] = [of |-> p, at |-> "verify"]]
    ELSE [m EXCEPT !.rt[p].status = "disabled"]

\* What an activation writes to its record; after an uninstall nobody sees it.
Marked(m, p, status) == IF m.rt[p].status = "absent" THEN m ELSE [m EXCEPT !.rt[p].status = status]

-----------------------------------------------------------------------------

\* The process starts with what an earlier one has stored, and loadStoredPlugins() begins.
PluginInit ==
    \E stored \in SUBSET StoredPlugin :
        /\ \A e, f \in stored : e.id = f.id => e = f
        /\ plug = [rt |-> [p \in Plugins |-> AbsentPlugin], tools |-> {}, provider |-> NoPlugin,
                   stored |-> stored, unread |-> stored,
                   activation |-> [c \in Callers |-> NoActivation]]
        /\ life = [p \in Plugins |-> IF \E e \in stored : e.id = p THEN "installed" ELSE "new"]
        /\ cut = {}
        /\ passedOver = {}

\* The loader reads the manifest of the next entry, as it was when the process started.
LoadStoredPlugin(e) ==
    LET read == [plug EXCEPT !.unread = @ \ {e},
                             !.rt[e.id] = [AbsentPlugin EXCEPT !.enabled = e.enabled,
                                                               !.granted = e.granted,
                                                               !.status = "disabled"]]
    IN  /\ e \in plug.unread
        /\ plug.activation[Loader].at = "none"
        /\ plug' = ActivationBegins(read, e.id, Loader)
        /\ UNCHANGED <<life, cut, passedOver>>

\* A manifest that cannot be read is skipped.
SkipStoredPlugin(e) ==
    /\ e \in plug.unread
    /\ plug.activation[Loader].at = "none"
    /\ plug' = [plug EXCEPT !.unread = @ \ {e}]
    /\ passedOver' = passedOver \cup {e.id}
    /\ UNCHANGED <<life, cut>>

-----------------------------------------------------------------------------
(* Calls of the window                                                     *)

FreeCallers == {c \in Callers \ {Loader} : plug.activation[c].at = "none"}

\* A call that stores the list, and may begin an activation.
PluginCall(m) ==
    /\ FreeCallers # {}
    /\ plug' = m
    /\ passedOver' = passedOver \cup {e.id : e \in plug.unread}

\* installPluginFromPath(), from where it has read and checked the files.
InstallPlugin(p) ==
    \E granted \in BOOLEAN, status \in {"pending-permissions", "tampered"} :
        LET added == Persisted([plug EXCEPT !.rt[p] = [enabled |-> TRUE, granted |-> granted,
                                                       listed |-> FALSE, status |-> status]])
        IN  /\ life[p] = "new"
            /\ life' = [life EXCEPT ![p] = "installed"]
            /\ PluginCall(IF granted /\ status # "tampered"
                          THEN ActivationBegins(added, p, Min(FreeCallers))
                          ELSE added)
            /\ UNCHANGED cut

\* grantPermissions(): all that is missing, or a part of it.
GrantPermissions(p) ==
    \E all \in BOOLEAN :
        LET granted == Persisted([plug EXCEPT !.rt[p].granted = @ \/ all])
        IN  /\ Present(p)
            /\ PluginCall(IF granted.rt[p].enabled
                          THEN ActivationBegins(Deactivated(granted, p), p, Min(FreeCallers))
                          ELSE granted)
            /\ UNCHANGED <<life, cut>>

\* setPluginEnabled(id, true)
EnablePlugin(p) ==
    LET enabled == Persisted([plug EXCEPT !.rt[p].enabled = TRUE]) IN
    /\ Present(p)
    /\ PluginCall(ActivationBegins(enabled, p, Min(FreeCallers)))
    /\ UNCHANGED <<life, cut>>

\* (mutant) The list is stored before the switch is set.
DisableAfterStoring(p) ==
    LET stored == Deactivated(Persisted(plug), p) IN
    /\ Present(p)
    /\ PluginCall([stored EXCEPT !.rt[p].enabled = FALSE, !.rt[p].status = "disabled"])
    /\ cut' = IF \E c \in Callers : plug.activation[c].of = p THEN cut \cup {p} ELSE cut \ {p}
    /\ UNCHANGED life

\* setPluginEnabled(id, false)
DisablePlugin(p) ==
    LET stored == Persisted([plug EXCEPT !.rt[p].enabled = FALSE]) IN
    /\ Present(p)
    /\ PluginCall([Deactivated(stored, p) EXCEPT !.rt[p].status = "disabled"])
    /\ cut' = IF \E c \in Callers : plug.activation[c].of = p THEN cut \cup {p} ELSE cut \ {p}
    /\ UNCHANGED life

\* uninstallPlugin()
UninstallPlugin(p) ==
    /\ Present(p)
    /\ PluginCall(Persisted([Deactivated(plug, p) EXCEPT !.rt[p] = AbsentPlugin]))
    /\ life' = [life EXCEPT ![p] = "gone"]
    /\ UNCHANGED cut

-----------------------------------------------------------------------------
(* An activation goes on                                                   *)

\* The check of the signature ends. Whether the plugin is still enabled is not asked again.
VerificationEnds(c) ==
    LET p    == plug.activation[c].of
        over == [plug EXCEPT !.activation[c] = NoActivation]
    IN  /\ plug.activation[c].at = "verify"
        /\ \/ plug' = Marked(over, p, "tampered")
           \/ ~plug.rt[p].granted /\ plug' = Marked(over, p, "pending-permissions")
           \/ /\ plug.rt[p].granted \/ ~Present(p)
              /\ plug' = [plug EXCEPT !.activation[c].at = "activate"]

\* (mutant) The host registers for the record it was made with, whether it is listed or not.
RegistersForAnyone(c) ==
    LET p == plug.activation[c].of IN
    /\ plug.activation[c].at = "activate"
    /\ plug' = [plug EXCEPT !.tools = @ \cup {p}, !.provider = p,
                            !.rt[p].listed = Present(p)]

\* activate() calls the host: registerTool(), registerRunner(), registerProvider(). What
\* is there under that name stays; the provider of another plugin does not.
Registers(c) ==
    LET p == plug.activation[c].of IN
    /\ plug.activation[c].at = "activate"
    /\ Present(p)
    /\ ~plug.rt[p].listed
    /\ plug' = [plug EXCEPT !.tools = @ \cup {p}, !.provider = p, !.rt[p].listed = TRUE]

\* The import fails, activate() throws or returns. What it has registered stays.
ActivationEnds(c) ==
    /\ plug.activation[c].at = "activate"
    /\ \E status \in {"loaded", "failed"} :
          plug' = Marked([plug EXCEPT !.activation[c] = NoActivation],
                         plug.activation[c].of, status)

-----------------------------------------------------------------------------

PluginUserStep(p) ==
    \/ InstallPlugin(p)
    \/ GrantPermissions(p)
    \/ EnablePlugin(p)
    \/ DisablePlugin(p)
    \/ UninstallPlugin(p)

PluginStep ==
    \/ \E e \in plug.unread : LoadStoredPlugin(e) \/ SkipStoredPlugin(e)
    \/ /\ \E c \in Callers : VerificationEnds(c) \/ Registers(c) \/ ActivationEnds(c)
       /\ UNCHANGED <<life, cut, passedOver>>

PluginNext == PluginStep \/ \E p \in Plugins : PluginUserStep(p)

PluginSpec == PluginInit /\ [][PluginNext]_pluginVars

-----------------------------------------------------------------------------
(* Properties                                                              *)

\* What is in the registries is what the manager lists for a plugin and will take out
\* again, so nothing is left of an uninstalled one, although its activation may still be
\* under way; and a disabled plugin has nothing there, unless it was disabled during an
\* activation, which then finishes ("unregisters everything", plugin-authoring.md).
PluginToolsWithdrawn ==
    \A p \in Plugins :
        /\ p \in plug.tools <=> plug.rt[p].listed
        /\ plug.provider = p => plug.rt[p].listed
        /\ Present(p) /\ ~plug.rt[p].enabled =>
              p \in cut \/ (p \notin plug.tools /\ plug.rt[p].status = "disabled")

\* The stored list is what the user has done: an uninstalled plugin does not come back,
\* the switches are as they were last set, and an installed plugin is in it, unless its
\* files could not be read or a call stored the list before the loader came to it
\* (persist() writes the runtime, whether or not it is complete).
StoreFollowsUser ==
    /\ \A p \in Plugins : life[p] = "installed" =>
          p \in passedOver \/ \E e \in plug.stored : e.id = p
    /\ \A e \in plug.stored :
          /\ life[e.id] = "installed"
          /\ Present(e.id) => plug.rt[e.id].enabled = e.enabled /\ plug.rt[e.id].granted = e.granted
=============================================================================
