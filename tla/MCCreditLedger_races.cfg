SPECIFICATION Spec
CONSTANTS
    u1 = u1
    u2 = u2
    eBuy = eBuy
    ePack = ePack
    eLapse = eLapse
    eTest = eTest
    None = None
    NoWorker = NoWorker
    Users = {u1}
    Workers = {w1, w2}
    Events = {eBuy, ePack, eLapse, eTest}
    EventOf <- MCEventOf
    Grants <- MCGrants
    ClaimPairs <- NoClaims
    Allowance <- MCAllowance
    RoomPrice <- MCRoomPrice
    ChatPrice = 1
    Winzip = TRUE
    WinzipWait = 1
    TrialLength = 1
    MaxClock = 2
    MonthOf <- MCMonthOf
    MaxRequests = 2
PROPERTIES
    AccountsSpec
SYMMETRY Symmetry
CHECK_DEADLOCK FALSE
