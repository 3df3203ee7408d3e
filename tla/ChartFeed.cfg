\* A buffer of three, charts and history of two points, five samples under a
\* clock that jumps back, one restart of the server.
CONSTANTS
    MaxSize = 3
    MaxAppends = 5
    Stamps = {1, 2}
    MaxPoints = 2
    HistoryPoints = 2
    MaxRestarts = 1
SPECIFICATION FeedLiveSpec
INVARIANTS
    FeedTypeOK
    LatestAreTheNewest
    NoGapAfterHello
    ChartShowsSession
PROPERTIES
    FeedContract
    SamplesAreShown
