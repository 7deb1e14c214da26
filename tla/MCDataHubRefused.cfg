SPECIFICATION MCSpec
CONSTANTS
    Parts = {"box"}
    Consumers = {c1, c2}
    Capacity = 2
    Batches = {1, 3}
    Counts = {1, 3}
    MaxPos = 6
    Ids = {0, 1, 2, 5}
    Policies <- MCPolicies
    RingCapacity = 2
    PreWindow = 1
    PostWindow = 1
    MaxSamples = 4
    MaxSamplesPerSnap = 2
    SlotCount = 3
    MaxTime = 4
    MaxSnapshots = 4
    MaxCrashes = 2
    IdRange = 8
    TableFiles <- MCTableFiles
    Devices <- MCDevices
    MaxRegisters = 5
    MaxBits = 2
    Points = {p1, p2}
    WindowMs = 2
    MonthWindows = 1
    MaxPending = 2
    BufferCapacity = 2
    LastMoment = 5
    MaxPushed = 4
    MaxBusy = 1
    MaxRuns = 2
PROPERTY
    CriticalIsPersisted
CHECK_DEADLOCK FALSE
