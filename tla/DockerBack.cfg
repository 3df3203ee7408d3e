\* One container, and a daemon that is down when the first collection asks.
CONSTANTS
    Containers = {"web"}
    CacheSpan = 1
    MaxClock = 0
    MaxSetBacks = 0
    DockerEvery = 1
    ServicesEvery = 1
    ProcessLimit = 1
    AlertDisk = 90
    ProcessAnswers = {}
    UnitAnswers = {}
    Partitions = {}
SPECIFICATION SlowFeedLiveSpec
PROPERTY DockerIsFound
