CONSTANTS
    Keys = {u1, u2}
    Users = {u1}
    PerMinute = 2
    Window = 2
    Second = 2
    MaxKeys = 1
    MaxTurns = 3
    MaxConcurrent = 2
    Price = 1
    None = None
SPECIFICATION FairSpec
INVARIANTS TypeOK SlotsAreHeld Pace
PROPERTIES ChargeSpec SlotsComeBack
CHECK_DEADLOCK FALSE
