\* The slow loop alone, through a sleep it does not notice.
CONSTANTS
    MaxConns = 2
    Loops = {"slow"}
    SleepDelay = 1
    Intervals = {12}
    DefaultInterval = 12
    MayNotEncode = {}
    Periods <- MCTwoTiers
    Cycle = 6
    BufferSize <- MCBufferSize
SPECIFICATION Spec
PROPERTY FirstCollectionIsFull
CHECK_DEADLOCK FALSE
