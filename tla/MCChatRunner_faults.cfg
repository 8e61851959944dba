\* The settings edited under the turn, failing writes of the row, a crash, the conversation deleted under the stream; a turn ends or asks, and a cancelled turn ends.
SPECIFICATION FairSpec
CONSTANTS
    s1 = s1
    c1 = c1
    read = read  write = write  shell = shell
    Streams <- OneStream
    Tools <- AboveRead
    Tier <- TierOfAbove
    Conv <- OnlyConversation
    Conversations = {c1}
    Available <- OneHasNarrow
    Mutating <- Writers
    WriteFile = write
    MaxIterations = 1
    MaxAttempts = 2
    MaxCalls = 1
    MaxPolicyEdits = 1
    MaxCrashes = 1
    StorageFaults = TRUE
    Deletable = {c1}
INVARIANTS
    RowIsPrefix
    PromptsMatchRequests
    SessionsDieWithStream
    CutTurnsSettled
PROPERTIES
    TurnsSettle
\* A finite set of streams: when all have ended there is nothing left to do.
CHECK_DEADLOCK FALSE
