\* Two clients with changing settings, both loops, payloads that do not encode,
\* and a sleep timer that is due at once.
CONSTANTS
    MaxConns = 2
    Loops = {"fast", "slow"}
    SleepDelay = 0
    Intervals <- MCIntervals
    DefaultInterval = 12
    MayNotEncode = {"slow"}
    Periods <- MCOneTier
    Cycle = 1
    BufferSize <- MCBufferSize
SPECIFICATION Spec
INVARIANTS
    TypeOK
    NothingLeftBehind
    AckedInForce
    OneSampleAsleep
PROPERTIES
    EndpointContract
    NoFrameAfterPauseAck
    OnlyLostAreDropped
CHECK_DEADLOCK FALSE
