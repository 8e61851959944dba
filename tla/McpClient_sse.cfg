\* One client over any transport, whose server may do anything.
SPECIFICATION ClientSpec
\* A client that has been disconnected, or has failed to connect, has nothing left to do.
CHECK_DEADLOCK FALSE
CONSTANTS
    MaxRpcs = 3
INVARIANT
    ConnectFailsForCause
