SPECIFICATION MCSpec
CONSTANTS
    Parts = {"stream"}
    Slaves = {1}
    Strangers = {2}
    BankSize = 2
    Words = {0, 773}
    Requests <- MCRequests
    NoCall = NoCall
    kCapacity = 32
    kMaxHuntBytes = 6
    MaxConns = 2
    MaxReqs = 2
    MaxAtClose = 0
    RtuRequests <- MCRtuRequests
    Pieces = {1, 7}
    PortPieces = {3}
    Effects = {"none"}
    Errors = {"ConnectionRefused", "NetworkError"}
    Configs <- MCConfigs
    MaxFailures = 8
INVARIANT
    NothingInvented
CHECK_DEADLOCK FALSE
