\* One container, tiers of three and six ticks, a cache of two seconds and a
\* clock of three that may be set ahead, and back once; PROCESS_LIMIT below the three
\* processes listed, and ALERT_DISK below what the page marks.
CONSTANTS
    Containers = {"web"}
    CacheSpan = 2
    MaxClock = 3
    MaxSetBacks = 1
    DockerEvery = 3
    ServicesEvery = 6
    ProcessLimit = 2
    AlertDisk = 80
    ProcessAnswers <- MCProcessAnswers
    UnitAnswers <- MCUnitAnswers
    Partitions <- MCPartitions
SPECIFICATION SlowFeedSpec
INVARIANTS
    SlowFeedTypeOK
    CacheIsRecent
    PageFollowsDocker
    PayloadIsTrue
