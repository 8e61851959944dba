\* A connected server is disabled, and its reconnect timer fires.
SPECIFICATION Spec
\* The settings calls are bounded: a disabled server then has nothing left to do.
CHECK_DEADLOCK FALSE
CONSTANTS
    MaxClients = 4
    MaxTimers = 2
    MaxEdits = 4
INVARIANTS
    DisabledToolsGone
