\* An interface that comes and goes, two threads, three seconds of a clock set
\* back once and ahead at any time.
CONSTANTS
    Devices = {"eth0"}
    LineRate = 2
    MaxClock = 3
    MaxSetBacks = 1
    Workers = {w1, w2}
SPECIFICATION FastSpec
SYMMETRY WorkerSymmetry
INVARIANT FastTypeOK
PROPERTIES
    RatesAreTrue
    NoRateAboveLine
    WindowsAgree
    ReadingsFollow
