\* A run in a worktree and one beside it in a registry of one, two verdicts at once,
\* failing writes and git commands, and a restart; or the runner of one, a command line
\* whose child may ignore SIGTERM and leave a helper, or the internal loop.
SPECIFICATION AgentsSpec
\* Runs and restarts are bounded: when they are used up nothing is left to do.
CHECK_DEADLOCK FALSE
CONSTANTS
    r1 = r1
    r2 = r2
    c1 = c1
    c2 = c2
    c3 = c3
    Runs <- TwoRuns
    UseWorktree <- OneTree
    MaxReviews = 2
    MaxRuns = 1
    MaxFaults = 1
    MaxQuits = 1
    Calls <- ThreeCalls
    Permitted <- TwoAllowed
    MaxTurns = 2
    MaxBatch = 2
    MaxLines = 3
INVARIANTS
    WorkKept
    VerdictMatchesRepo
    RunningRowExplained
    ReportTrue
PROPERTIES
    ImplementsLifecycle
    AbortSettles
    StoppedRunEnds
