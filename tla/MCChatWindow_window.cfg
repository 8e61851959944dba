\* Three turns in two conversations, one of them perhaps from before the window was
\* loaded, a queue of one, and a daily budget of one answer.
SPECIFICATION FairSpec
\* Turns are bounded: when they are used up nothing is left to do.
CHECK_DEADLOCK FALSE
CONSTANTS
    c1 = c1
    c2 = c2
    daily = daily
    Convs <- TwoConvs
    Budgets <- OneBudget
    Covers <- CoversAll
    Daily = {daily}
    Amount <- OneUnit
    Costs = {1}
    MaxCost = 1
    Newest = c1
    MaxTurns = 3
    MaxQueue = 1
    MaxWire = 2
    OldTurns = {1}
INVARIANTS
    FollowedTurnEnds
    QueueGoesHome
    OverrunBounded
PROPERTIES
    StopLetsGo
