SPECIFICATION FairSpec
CONSTANTS
    MaxTid = 3
    Slaves = {1, 2}
    NoEntry = NoEntry
    NSeg = 3
    SlaveOf <- MCSlaveOf
    FcOf <- MCFcOf
    WriteSlave = 2
    None = None
    MaxFlaps = 2
    MaxWrites = 1
INVARIANTS
    DecodedFromItsSlave
    PollingFollowsLink
PROPERTY
    EverySegmentIsPolled
CHECK_DEADLOCK FALSE
