\* One turn in full: two iterations of two calls, two attempts, every answer.
SPECIFICATION Spec
CONSTANTS
    s1 = s1
    c1 = c1
    read = read  write = write  shell = shell
    Streams <- OneStream
    Tools <- TwoTools
    Tier <- TierOfTwo
    Conv <- OnlyConversation
    Conversations = {c1}
    Available <- OneHasTwo
    Mutating <- Writers
    WriteFile = write
    MaxIterations = 2
    MaxAttempts = 2
    MaxCalls = 2
    MaxPolicyEdits = 0
    MaxCrashes = 0
    StorageFaults = FALSE
    Deletable = {}
INVARIANTS
    ConsentTraceable
    EndReportedOnce
    EndedRowsComplete
    MutationsCaptured
PROPERTIES
    ImplementsPermits
\* A finite set of streams: when all have ended there is nothing left to do.
CHECK_DEADLOCK FALSE
