SPECIFICATION Spec
CONSTANTS
    p1 = p1
    p2 = p2
    Points = {p1}
    Maintained = {p1}
    NoRule = NoRule
    NoState = NoState
    Rules <- mcRules
    RuleSets <- oneRuleSets
    OnDelay = 1
    OffDelay = 1
    SuppressWindow = 3
    StormWindow = 1
    DefaultThreshold = 5
    Thresholds = {1}
    RingSize = 2
    MaxPending = 1
    Uptime = 3
    MaxTime = 6
    MaxRuns = 2
    Months = 2
INVARIANTS
    SustainedIsDetected
    RecordsFollowEngine
PROPERTY
    KeepsLedger
CHECK_DEADLOCK FALSE
