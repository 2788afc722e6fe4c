CONSTANTS
    MaxAlerts = 2
    Cap = 1
    MaxTrouble = 1
    Clients = {c1, c2}
    Evaluators = {e1, e2}
    Above <- OneAbove
    None = None
SPECIFICATION FairSpec
INVARIANTS FiresOnce
PROPERTIES CancelledNeverFires NewestSurvive BreachedAlertsEnd
CHECK_DEADLOCK FALSE
