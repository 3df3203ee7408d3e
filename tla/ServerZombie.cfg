\* One client and a payload that does not encode.
CONSTANTS
    MaxConns = 1
    Loops = {"slow"}
    SleepDelay = 1
    Intervals = {12}
    DefaultInterval = 12
    MayNotEncode = {"slow"}
    Periods <- MCOneTier
    Cycle = 1
    BufferSize <- MCBufferSize
SPECIFICATION Spec
INVARIANT SleepsOnlyWithoutClients
CHECK_DEADLOCK FALSE
