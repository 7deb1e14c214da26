SPECIFICATION Spec
CONSTANTS
    Slaves = {1, 2}
    Strangers = {}
    BankSize = 2
    Words = {0, 1, 2, 3, 4, 5}
    Requests <- MCRequests
    NoCall = NoCall
    Specs <- MCSpecs
    MaxSessions = 1
    MaxAge = 1
    Points <- MCPoints
    DrillFiles <- MCDrillFiles
    NoScript = NoScript
    MaxAtLoad = 0
INVARIANTS
    ScriptedFaultsAreHeld
    PassMeansInjected
PROPERTIES
    FaultIsShown
    FaultsEnd
