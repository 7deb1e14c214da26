SPECIFICATION FairSpec
CONSTANTS
    m1 = m1
    m2 = m2
    k1 = k1
    k2 = k2
    v1 = v1
    Machines = {m1, m2}
    Keys = {k1, k2}
    Values = {v1}
    Free = Free
    NoKey = NoKey
    NoCommand = NoCommand
    MaxSeq = 3
INVARIANTS
    LockMatchesArmed
    SentAtMostOnce
    ReportsAreConsistent
PROPERTIES
    ImplementsContract
    EveryMachineReturnsToIdle
