\* Two tasks on every trigger, edited at any time, a clock that may run ahead of the timer, and a restart.
SPECIFICATION Spec
\* The clock, edits and runs are bounded: when they are used up nothing is left to do.
CHECK_DEADLOCK FALSE
SYMMETRY TaskSymmetry
CONSTANTS
    t1 = t1
    t2 = t2
    Tasks <- TwoTasks
    Patterns <- TwoPatterns
    Horizon = 3
    MaxConcurrentRuns = 1
    MaxRuns = 3
    MaxEdits = 3
    MaxQuits = 1
INVARIANTS
    CapKept
    ArmedForEarliest
    SlotRunOnce
PROPERTIES
    AwaitedSlotCaughtUp
