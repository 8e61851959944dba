\* Two tasks on globs and hooks of one repository, edits while watchers start and stop,
\* and a restart on another port; or two files written while their workspace is indexed,
\* switched on and off, and the process restarted.
SPECIFICATION FollowersSpec
\* Edits, changes, calls and restarts are bounded: when they are used up nothing is left
\* to do.
CHECK_DEADLOCK FALSE
SYMMETRY Symmetric
CONSTANTS
    t1 = t1
    t2 = t2
    g1 = g1
    g2 = g2
    commit = commit
    push = push
    repo = repo
    Tasks <- TwoTasks
    Globs <- TwoGlobs
    NoGlob = NoGlob
    Hooks <- TwoHooks
    Repos <- OneRepo
    Repo <- RepoOf
    Ports = {1, 2}
    Other = Other
    MaxWatchers = 3
    MaxReconciles = 2
    MaxEdits = 3
    MaxQuits = 1
    f1 = f1
    f2 = f2
    v1 = v1
    v2 = v2
    Files <- TwoFiles
    Versions <- TwoVersions
    MaxIndexes = 2
    MaxChanges = 2
    MaxSwitches = 2
    MaxRestarts = 1
    MaxFaults = 1
INVARIANTS
    WatchersSettle
    HooksCurrent
    IndexCurrent
PROPERTIES
    PendingChangesKept
