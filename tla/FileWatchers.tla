---------------------------- MODULE FileWatchers ----------------------------
(***************************************************************************)
(* The file watchers of scheduled tasks                                    *)
(* (apps/desktop/src/main/scheduler/file-watcher.ts): a registry lists one *)
(* watcher per task, and reconcile() stops and starts watchers until the   *)
(* list is what the enabled tasks ask for. It awaits every stop and every  *)
(* start, and nobody awaits it: several may be under way at once, each     *)
(* with what was asked for when it began.                                  *)
(*                                                                         *)
(* A watcher that is in no list and never stopped is leaked: it goes on    *)
(* firing. What is watched, a directory and a glob, is a member of Globs;  *)
(* chokidar is external: it sees changes, and its start and its stop take  *)
(* a while. The paths of a pending change, the ignored directories and a   *)
(* start that fails are left out.                                          *)
(***************************************************************************)
EXTENDS Naturals, FiniteSets, Functions

CONSTANTS
    Tasks,          \* scheduled tasks
    Globs,          \* what a task may watch
    NoGlob,         \* a task that watches nothing
    MaxWatchers,    \* bound: watchers at once, leaked ones too
    MaxReconciles   \* bound: reconciles under way at once

Ids  == 1 .. MaxWatchers
Recs == 1 .. MaxReconciles

None == 0                                   \* no watcher
Gone == [open |-> FALSE, pending |-> FALSE] \* one that sees nothing and nobody knows of

ASSUME WatchersAssumption ==
    /\ NoGlob \notin Globs
    /\ {MaxWatchers, MaxReconciles} \subseteq Nat

VARIABLES
    watcher,    \* every FileChangeWatcher there is
    listed,     \* watchers, the map; a watcher's glob is its signature
    rec,        \* the reconciles, each at what it awaits
    overlapped  \* history: a reconcile began while another was under way

watcherVars == <<watcher, listed, rec, overlapped>>

\* A change that was seen is pending as long as the debounce timer runs.
Watcher == [task: Tasks, glob: Globs, open: BOOLEAN, pending: BOOLEAN]

Wishes == [Tasks -> Globs \cup {NoGlob}]

Idle == [at |-> "idle"]
Reconcile == [at: {"stopping", "replacing"}, want: Wishes, todo: SUBSET Tasks, task: Tasks]
        \cup [at: {"starting"}, want: Wishes, todo: SUBSET Tasks, task: Tasks, id: Ids]

WatchersTypeOK ==
    /\ watcher \in [Ids -> Watcher \cup {Gone}]
    /\ listed \in [Tasks -> Ids \cup {None}]
    /\ \A t \in Tasks : listed[t] # None => watcher[listed[t]] # Gone
    /\ rec \in [Recs -> Reconcile \cup {Idle}]
    /\ overlapped \in BOOLEAN

NoWatchers ==
    /\ watcher = [i \in Ids |-> Gone]
    /\ listed = [t \in Tasks |-> None]
    /\ rec = [k \in Recs |-> Idle]
    /\ overlapped = FALSE

-----------------------------------------------------------------------------
(* Watchers                                                                *)

Open(ws) == {i \in Ids : ws[i].open}

\* stop(), up to the await of chokidar: the pending change is dropped.
Stopped(ws, i) == [ws EXCEPT ![i].open = FALSE, ![i].pending = FALSE]

\* start(), up to the await of chokidar.
Started(ws, i, t, glob) ==
    [ws EXCEPT ![i] = [task |-> t, glob |-> glob, open |-> TRUE, pending |-> FALSE]]

\* A stopped watcher that is not listed any more is forgotten.
Known(ws, list) == [i \in Ids |-> IF i \in Open(ws) \cup Range(list) THEN ws[i] ELSE Gone]

-----------------------------------------------------------------------------
(* A reconcile from one await to the next                                  *)

\* (mutant) A watcher is started anew whatever it watches.
NeededAlways(ws, list, want, todo) == todo

\* Of the tasks still to be looked at, those whose listed watcher is missing or
\* watches something else. Whether it is being stopped is not looked at.
Needed(ws, list, want, todo) ==
    {t \in todo : list[t] = None \/ ws[list[t]].glob # want[t]}

\* The second loop: the next task that needs it has its watcher stopped, or a new one
\* started; those before it that need nothing are passed over. The order is that of
\* the table: any here.
StartWanted(k, ws, list, want, todo) ==
    LET needed == Needed(ws, list, want, todo) IN
    IF needed = {}
    THEN watcher' = ws /\ rec' = [rec EXCEPT ![k] = Idle]
    ELSE \E t \in needed, passed \in SUBSET (todo \ needed) :
            LET rest == todo \ (passed \cup {t}) IN
            \/ /\ list[t] # None
               /\ watcher' = Stopped(ws, list[t])
               /\ rec' = [rec EXCEPT ![k] =
                     [at |-> "replacing", want |-> want, todo |-> rest, task |-> t]]
            \/ /\ list[t] = None
               /\ \E i \in Ids :
                     /\ ws[i] = Gone /\ \A j \in Ids : j < i => ws[j] # Gone
                     /\ watcher' = Started(ws, i, t, want[t])
                     /\ rec' = [rec EXCEPT ![k] =
                           [at |-> "starting", want |-> want, todo |-> rest, task |-> t, id |-> i]]

\* The first loop: listed watchers nobody asked for are stopped, one after another.
StopUnwanted(k, ws, list, want) ==
    LET unwanted == {t \in Tasks : list[t] # None /\ want[t] = NoGlob}
        todo     == {t \in Tasks : want[t] # NoGlob}
    IN  IF unwanted = {}
        THEN StartWanted(k, ws, list, want, todo)
        ELSE \E t \in unwanted :
                /\ watcher' = Stopped(ws, list[t])
                /\ rec' = [rec EXCEPT ![k] =
                      [at |-> "stopping", want |-> want, todo |-> todo, task |-> t]]

UnderWay == {k \in Recs : rec[k] # Idle}

\* reconcile() is called, and runs up to its first await.
ReconcileBegins(want) ==
    /\ \E k \in Recs : /\ k \notin UnderWay /\ \A j \in Recs : j < k => j \in UnderWay
                       /\ StopUnwanted(k, watcher, listed, want)
    /\ overlapped' = (overlapped \/ UnderWay # {})
    /\ UNCHANGED listed


\* A watcher of the first loop has stopped: it is taken off the list, or whatever
\* watcher its task has there by now.
StopEnds(k) ==
    LET r    == rec[k]
        list == [listed EXCEPT ![r.task] = None]
    IN  /\ r.at = "stopping"
        /\ listed' = list
        /\ StopUnwanted(k, Known(watcher, list), list, r.want)
        /\ UNCHANGED overlapped

\* A watcher of the second loop has stopped: the same, and a new one is started.
ReplacedEnds(k) ==
    LET r    == rec[k]
        list == [listed EXCEPT ![r.task] = None]
        ws   == Known(watcher, list)
    IN  /\ r.at = "replacing"
        /\ listed' = list
        /\ \E i \in Ids :
              /\ ws[i] = Gone /\ \A j \in Ids : j < i => ws[j] # Gone
              /\ watcher' = Started(ws, i, r.task, r.want[r.task])
              /\ rec' = [rec EXCEPT ![k] = [at |-> "starting", want |-> r.want, todo |-> r.todo,
                                            task |-> r.task, id |-> i]]
        /\ UNCHANGED overlapped

\* The new watcher is ready and is listed, whatever is listed for its task by now.
StartEnds(k) ==
    LET r    == rec[k]
        list == [listed EXCEPT ![r.task] = r.id]
    IN  /\ r.at = "starting"
        /\ listed' = list
        /\ StartWanted(k, Known(watcher, list), list, r.want, r.todo)
        /\ UNCHANGED overlapped

ReconcileStep(k) == StopEnds(k) \/ ReplacedEnds(k) \/ StartEnds(k)

-----------------------------------------------------------------------------
(* Changes                                                                 *)

\* A file changes: consider() and scheduleFire() of every watcher that sees it; one
\* that is still starting may miss it.
FileChanges(glob) ==
    LET starting == {rec[k].id : k \in {k \in Recs : rec[k].at = "starting"}}
        seeing   == {i \in Open(watcher) : watcher[i].glob = glob}
    IN  /\ \E missed \in SUBSET (starting \cap seeing) :
              watcher' = [i \in Ids |-> IF i \in seeing \ missed
                                        THEN [watcher[i] EXCEPT !.pending = TRUE]
                                        ELSE watcher[i]]
        /\ UNCHANGED <<listed, rec, overlapped>>

\* The debounce timer: all that is pending is one event, and fireTaskById() of
\* Scheduler is asked to run the task.
DebounceFires(i) ==
    /\ watcher[i].pending
    /\ watcher' = [watcher EXCEPT ![i].pending = FALSE]
    /\ UNCHANGED <<listed, rec, overlapped>>
=============================================================================
