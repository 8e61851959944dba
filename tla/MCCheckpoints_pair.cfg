\* Two turns and a restore on one file, all of them at once, and every failure. Next to
\* an absent file one content is enough: a change is one from the one to the other.
SPECIFICATION Spec
\* Bounded turns, restores and crashes: when they are used up nothing is left to do.
CHECK_DEADLOCK FALSE
CONSTANTS
    t1 = t1
    t2 = t2
    f1 = f1
    f2 = f2
    a = a
    huge = huge
    Turns <- TwoTurns
    Files <- OneFile
    Contents <- One
    Large <- NoneLarge
    MaxWrites = 2
    MaxRestores = 1
    MaxCrashes = 1
    MaxKept = 2
INVARIANTS
    EntriesBacked
    OfferReverts
PROPERTIES
    FirstPreimageWins
