CONSTANTS
    guest = guest
    user = user
    other = other
    f = f
    g = g
    None = None
    Guest = guest
    User = user
    Rivals = {other}
    Fields = {f, g}
    Cadence <- MCCadence
    Starts <- MCStarts
    Period <- MCPeriod
    Runs <- MCRuns
    Eligible <- MCEligible
    Requests <- MCRequests
    MaxMoves = 2
SPECIFICATION Spec
INVARIANTS NothingLeftBehind DuelsFollow OneOrder
PROPERTIES CareerKept
CHECK_DEADLOCK FALSE
