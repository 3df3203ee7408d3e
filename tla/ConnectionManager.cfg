\* Three connections, both loops: an arrival, a departure, a failed send and a
\* countdown in every order.
CONSTANTS
    MaxConns = 3
    Loops = {"fast", "slow"}
    SleepDelay = 1
    Intervals <- MCIntervals
    DefaultInterval = 4
    MayNotEncode = {"slow"}
SPECIFICATION ManagerSpec
INVARIANTS
    SleepsOnlyWhenIdle
    IdleMeansCountdown
    CountdownOnlyWhenIdle
    NoLostWake
PROPERTY SleepWakeContract
