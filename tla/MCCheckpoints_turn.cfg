\* One turn on two files, restores beside it and after it, every failure, a crash anywhere.
SPECIFICATION Spec
\* Bounded turns, restores and crashes: when they are used up nothing is left to do.
CHECK_DEADLOCK FALSE
CONSTANTS
    t1 = t1
    t2 = t2
    f1 = f1
    f2 = f2
    a = a
    huge = huge
    Turns <- OneTurn
    Files <- TwoFiles
    Contents <- OneAndLarge
    Large <- OnlyLarge
    MaxWrites = 2
    MaxRestores = 2
    MaxCrashes = 1
    MaxKept = 2
PROPERTIES
    RestoresFaithful
