\* One thread, three seconds.
CONSTANTS
    Devices = {}
    LineRate = 0
    MaxClock = 3
    MaxSetBacks = 0
    Workers = {"w1"}
SPECIFICATION FastSpec
PROPERTY ReprimedAfterWake
