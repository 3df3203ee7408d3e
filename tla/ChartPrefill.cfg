\* A buffer of four, charts and history of three points, three samples.
CONSTANTS
    MaxSize = 4
    MaxAppends = 3
    Stamps = {1}
    MaxPoints = 3
    HistoryPoints = 3
    MaxRestarts = 0
SPECIFICATION FeedSpec
INVARIANT ChartIsPrefilled
