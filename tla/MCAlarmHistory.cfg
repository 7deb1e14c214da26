SPECIFICATION Spec
CONSTANTS
    p1 = p1
    p2 = p2
    Points = {p1}
    Maintained = {}
    NoRule = NoRule
    NoState = NoState
    Rules <- mcRules
    RuleSets <- oneRuleSets
    OnDelay = 1
    OffDelay = 1
    SuppressWindow = 3
    StormWindow = 1
    DefaultThreshold = 5
    Thresholds = {}
    RingSize = 2
    MaxPending = 1
    Uptime = 3
    MaxTime = 7
    MaxRuns = 2
    Months = 1
PROPERTY
    HistoryIsKept
CHECK_DEADLOCK FALSE
