SPECIFICATION MCSpec
CONSTANTS
    Parts = {"session", "overview", "plot", "center"}
    Names = {"admin", "operator"}
    Passwords = {"given", "own"}
    Roles = {"Operator", "Admin"}
    NoUser = NoUser
    Files <- MCFiles
    Defaults <- MCDefaults
    MaxLoginFails = 3
    LockTime = 3
    IdleLock = 2
    BusPoints = {"soc", "temp", "meter"}
    SinkKeys = {"wildcard"}
    Samples <- MCSamples
    RackOf <- MCRackOf
    KindOf <- MCKindOf
    CounterRange = 16
    MaxHandles = 3
    MaxBroadcasts = 2
    Readings <- MCReadings
    MaxChannels = 2
    MaxPending = 3
    Target = 2
    VisibleWindow = 2
    MaxPlotted = 4
    Alarms <- MCAlarms
    EarlierRows <- MCEarlierRows
    Filters <- MCFilters
    All = All
    DefaultRange = 1
    QueryLimit = 1
    MaxAlarms = 2
    MaxAge = 1
    LastMonth = 2
INVARIANTS
    SessionIsOfAUser
    AttemptsAreLimited
    NoEntryOutlivesItsView
PROPERTIES
    IdleIsLocked
    OnlyTheSeenAreConfirmed
    ViewsCatchUp
CHECK_DEADLOCK FALSE
