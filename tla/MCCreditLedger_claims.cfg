SPECIFICATION FairSpec
CONSTANTS
    u1 = u1
    u2 = u2
    eBuy = eBuy
    ePack = ePack
    eLapse = eLapse
    eTest = eTest
    None = None
    NoWorker = NoWorker
    Users = {u1, u2}
    Workers = {w1, w2}
    Events = {ePack, eLapse}
    EventOf <- MCEventOf
    Grants <- NoGrants
    ClaimPairs <- BothWays
    Allowance <- MCAllowance
    RoomPrice <- MCRoomPrice
    ChatPrice = 1
    Winzip = TRUE
    WinzipWait = 1
    TrialLength = 1
    MaxClock = 0
    MonthOf <- MCMonthOf
    MaxRequests = 2
INVARIANTS
    LockedCopiesAreFresh
PROPERTIES
    EventsLand
    FailedTurnsSettle
CHECK_DEADLOCK FALSE
