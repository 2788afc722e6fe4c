SPECIFICATION Spec
CONSTANTS
    u1 = u1
    u2 = u2
    eBuy = eBuy
    ePack = ePack
    eLapse = eLapse
    eTest = eTest
    None = None
    NoWorker = NoWorker
    Users = {u1, u2}
    Workers = {w1, w2}
    Events = {}
    EventOf <- MCEventOf
    Grants <- NoGrants
    ClaimPairs <- OneClaim
    Allowance <- MCAllowance
    RoomPrice <- MCRoomPrice
    ChatPrice = 1
    Winzip = TRUE
    WinzipWait = 1
    TrialLength = 1
    MaxClock = 1
    MonthOf <- MCMonthOf
    MaxRequests = 2
INVARIANTS
    RefundsReachAnAccount
CHECK_DEADLOCK FALSE
