--------------------------- MODULE EventTriggers ---------------------------
(***************************************************************************)
(* The triggers of scheduled tasks other than the clock                    *)
(* (apps/desktop/src/main/scheduler/handlers.ts, triggers-lifecycle.ts,    *)
(* listener.ts and the parts of scheduler.ts that call the watchers): what *)
(* an edit of a task, the start and the end of the process do to the file  *)
(* watchers and to the git hooks, and on which port the listener hears     *)
(* them. Scheduler has what happens once a trigger has come.               *)
(*                                                                         *)
(* A trigger is a glob, a git hook or another one. The listener's requests *)
(* and the buttons that install or remove one hook are left out.           *)
(***************************************************************************)
EXTENDS GitHooks

CONSTANTS
    Other,      \* a trigger that needs neither a watcher nor a hook
    MaxEdits,   \* bound: tasks created, changed or deleted
    MaxQuits    \* bound: how often the process ends

ASSUME TriggersAssumption ==
    /\ Globs \cap Hooks = {}
    /\ Other \notin Globs \cup Hooks
    /\ {MaxEdits, MaxQuits} \subseteq Nat

Triggers == Globs \cup Hooks \cup {Other}
States   == {"absent", "enabled", "disabled", "deleted"}
NoRow    == [state |-> "absent", trigger |-> Other]

VARIABLES
    table,      \* scheduled_tasks
    up,         \* whether the process lives
    port,       \* boundPort
    edits,      \* tasks edited (bound)
    quits       \* process ends (bound)

taskVars == <<table, up, port, edits, quits>>
vars == <<watcherVars, hookVars, taskVars>>

TypeOK ==
    /\ WatchersTypeOK
    /\ HooksTypeOK
    /\ table \in [Tasks -> [state: States, trigger: Triggers]]
    /\ up \in BOOLEAN
    /\ port \in Ports \cup {NoPort}
    /\ edits \in 0 .. MaxEdits
    /\ quits \in 0 .. MaxQuits

\* The first start; there is no task yet.
Init ==
    /\ NoWatchers
    /\ HooksInit
    /\ table = [t \in Tasks |-> NoRow]
    /\ up = TRUE
    /\ port = NoPort
    /\ edits = 0
    /\ quits = 0

-----------------------------------------------------------------------------
(* What the table asks for                                                 *)

Exists(t) == table[t].state \in {"enabled", "disabled"}

Enabled(tbl, t) == tbl[t].state = "enabled"

\* (mutant) Tasks that are disabled keep their watchers.
DesiredOfAny(tbl) ==
    [t \in Tasks |-> IF tbl[t].trigger \in Globs THEN tbl[t].trigger ELSE NoGlob]

\* reconcileFileWatchers()
Desired(tbl) ==
    [t \in Tasks |-> IF Enabled(tbl, t) /\ tbl[t].trigger \in Globs
                     THEN tbl[t].trigger ELSE NoGlob]

\* The enabled tasks whose trigger is hook h.
Claimants(tbl, h) == {t \in Tasks : Enabled(tbl, t) /\ tbl[t].trigger = h}

Claimed(tbl) == {h \in Hooks : Claimants(tbl, h) # {}}

-----------------------------------------------------------------------------
(* Git hooks                                                               *)

NoHookChange == UNCHANGED <<file, wrapper, portFile>>

\* installGitHookForTask(): not before the listener has a port.
InstallGitHookForTask(t, h) ==
    IF port = NoPort
    THEN NoHookChange
    ELSE /\ InstallGitHooks([x \in {h} |-> t])
         /\ WriteListenerPortFiles({Repo[h]}, port)

\* uninstallGitHookForTask()
UninstallGitHookForTask(h) == UninstallGitHook(h) /\ UNCHANGED portFile

\* reinstallAllGitHooks(): of two tasks with one hook the later one has it.
ReinstallAllGitHooks(p) ==
    /\ \E owner \in [Claimed(table) -> Tasks] :
          /\ \A h \in Claimed(table) : owner[h] \in Claimants(table, h)
          /\ InstallGitHooks(owner)
    /\ WriteListenerPortFiles({Repo[h] : h \in Claimed(table)}, p)
    /\ UNCHANGED claims

-----------------------------------------------------------------------------
(* The window edits the tasks                                              *)

\* Every edit ends with rescheduleNow(), which begins a reconcile.
Edit(tbl) ==
    /\ up
    /\ edits < MaxEdits
    /\ edits' = edits + 1
    /\ table' = tbl
    /\ ReconcileBegins(Desired(tbl))
    /\ claims' = [h \in Hooks |-> claims[h] \cup {t \in Tasks : tbl[t].trigger = h}]
    /\ UNCHANGED <<up, port, quits>>

\* scheduler:create-task
CreateTask(t, trigger) ==
    /\ table[t].state = "absent"
    /\ Edit([table EXCEPT ![t] = [state |-> "enabled", trigger |-> trigger]])
    /\ IF trigger \in Hooks THEN InstallGitHookForTask(t, trigger) ELSE NoHookChange

\* scheduler:update-task. The hook the task had before is left where it is: when its
\* trigger is no longer a hook, uninstallGitHookForTask() refuses, as it looks at the
\* task as it is by then.
UpdateTask(t, state, trigger) ==
    /\ Exists(t)
    /\ Edit([table EXCEPT ![t] = [state |-> state, trigger |-> trigger]])
    /\ CASE trigger \in Hooks /\ state = "enabled"  -> InstallGitHookForTask(t, trigger)
         [] trigger \in Hooks /\ state = "disabled" -> UninstallGitHookForTask(trigger)
         [] trigger \notin Hooks                    -> NoHookChange

\* scheduler:delete-task
DeleteTask(t) ==
    /\ Exists(t)
    /\ IF table[t].trigger \in Hooks
       THEN UninstallGitHookForTask(table[t].trigger)
       ELSE NoHookChange
    /\ Edit([table EXCEPT ![t] = [state |-> "deleted", trigger |-> Other]])

-----------------------------------------------------------------------------
(* The process                                                             *)

\* (mutant) The hooks are left with the port they know.
ListenerStartsOnly(p) ==
    /\ up
    /\ port = NoPort
    /\ port' = p
    /\ UNCHANGED <<watcherVars, hookVars, table, up, edits, quits>>

\* startTriggerListener() has found a free port, perhaps not that of before.
ListenerStarts(p) ==
    /\ up
    /\ port = NoPort
    /\ port' = p
    /\ ReinstallAllGitHooks(p)
    /\ UNCHANGED <<watcherVars, table, up, edits, quits>>

\* stopSchedulerForApp() in before-quit, or a crash. The hooks stay.
Quit ==
    /\ up
    /\ quits < MaxQuits
    /\ quits' = quits + 1
    /\ up' = FALSE
    /\ port' = NoPort
    /\ watcher' = [i \in Ids |-> Gone]
    /\ listed' = [t \in Tasks |-> None]
    /\ rec' = [k \in Recs |-> Idle]
    /\ overlapped' = FALSE
    /\ UNCHANGED <<hookVars, table, edits>>

\* startSchedulerForApp(): the first reconcile begins; the listener takes longer.
Start ==
    /\ ~up
    /\ up' = TRUE
    /\ ReconcileBegins(Desired(table))
    /\ UNCHANGED <<hookVars, table, port, edits, quits>>

Next ==
    \/ \E t \in Tasks :
          \/ \E trigger \in Triggers :
                \/ CreateTask(t, trigger)
                \/ \E state \in {"enabled", "disabled"} : UpdateTask(t, state, trigger)
          \/ DeleteTask(t)
    \/ \E p \in Ports : ListenerStarts(p)
    \/ Quit
    \/ Start
    \/ \E k \in Recs : ReconcileStep(k) /\ UNCHANGED <<hookVars, taskVars>>
    \/ \E glob \in Globs : FileChanges(glob) /\ UNCHANGED <<hookVars, taskVars>>
    \/ \E i \in Ids : DebounceFires(i) /\ UNCHANGED <<hookVars, taskVars>>
    \/ \E h \in Hooks : UserEditsHook(h) /\ UNCHANGED <<watcherVars, taskVars>>

Spec == Init /\ [][Next]_vars

-----------------------------------------------------------------------------
(* Properties                                                              *)

Asked(t, glob) == table[t].state = "enabled" /\ table[t].trigger = glob

\* When no reconcile is under way, every watcher listed is open, whichever reconciles
\* crossed. And as long as none began while another was under way, no task ever has two
\* open watchers, and when all is quiet the open ones are exactly those the enabled
\* tasks ask for, each listed (reconcile() in file-watcher.ts).
WatchersSettle ==
    /\ up /\ UnderWay = {} =>
          \A t \in Tasks : listed[t] # None => listed[t] \in Open(watcher)
    /\ ~overlapped =>
          \A i, j \in Open(watcher) : watcher[i].task = watcher[j].task => i = j
    /\ up /\ UnderWay = {} /\ ~overlapped =>
          /\ \A t \in Tasks, glob \in Globs : Asked(t, glob) =>
                listed[t] # None /\ watcher[listed[t]].glob = glob
          /\ \A i \in Open(watcher) :
                listed[watcher[i].task] = i /\ Asked(watcher[i].task, watcher[i].glob)

\* A change that was seen is not lost to an edit: it stays pending until it fires,
\* unless its task no longer asks for that watcher, or the process ends (the signatures
\* in file-watcher.ts keep reconcile() from restarting the others).
PendingChangesKept ==
    [][\A i \in Ids :
          /\ watcher[i].pending
          /\ up' /\ ~overlapped'
          /\ Desired(table')[watcher[i].task] = watcher[i].glob
          => watcher'[i].pending \/ DebounceFires(i)]_vars

\* While the listener has a port, the hook of an enabled task calls that task's script,
\* and the script finds the port, whatever was edited while there was none and whichever
\* port the last start got, unless another task has had the same hook (handlers.ts,
\* triggers-lifecycle.ts).
HooksCurrent ==
    port # NoPort =>
        \A t \in Tasks, h \in Hooks :
            t \in Claimants(table, h) /\ claims[h] = {t} =>
                Called(h) = t /\ portFile[Repo[h]] = port
=============================================================================
