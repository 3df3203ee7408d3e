\* Liveness, the tiers and the use of the manager, with the slow loop alone: the
\* loops share nothing but the manager.
CONSTANTS
    MaxConns = 2
    Loops = {"slow"}
    SleepDelay = 1
    Intervals = {12}
    DefaultInterval = 12
    MayNotEncode = {}
    Periods <- MCTwoTiers
    Cycle = 6
    BufferSize <- MCBufferSize
SPECIFICATION LiveSpec
INVARIANT TiersOnTime
PROPERTIES
    ManagerContract
    ClientsAreFed
    LostClientsAreDropped
    AbandonedServerSleeps
CHECK_DEADLOCK FALSE
