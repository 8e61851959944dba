\* Two turns, the second of them refused by the budget the first has used up.
SPECIFICATION Spec
\* Turns are bounded: when they are used up nothing is left to do.
CHECK_DEADLOCK FALSE
CONSTANTS
    c1 = c1
    c2 = c2
    daily = daily
    Convs <- TwoConvs
    Budgets <- OneBudget
    Covers <- CoversAll
    Daily = {daily}
    Amount <- OneUnit
    Costs = {1}
    MaxCost = 1
    Newest = c1
    MaxTurns = 2
    MaxQueue = 1
    MaxWire = 2
    OldTurns = {1}
INVARIANTS
    FirstErrorFinalizes
