--------------------------- MODULE MCAlarmRecords ---------------------------
EXTENDS AlarmRecords, TLC
CONSTANTS p1, p2
warning == [level |-> "Warning", thresholds |-> 1]
critical == [level |-> "Critical", thresholds |-> 1]
critical2 == [level |-> "Critical", thresholds |-> 2]
mcRules == {warning, critical, critical2}
oneRuleSets == {p1 :> critical, p1 :> critical2, p1 :> NoRule}
twoRuleSets == {p1 :> critical @@ p2 :> warning, p1 :> critical @@ p2 :> NoRule}
=============================================================================
