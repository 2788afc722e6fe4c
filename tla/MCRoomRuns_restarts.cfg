CONSTANTS
    Runs = {r1, r2}
    Keys = {k1}
    None = None
    Prices = {1}
    Faults = {"refund", "journal"}
    Crashes = TRUE
    Backtests = FALSE
    Overruns = TRUE
SPECIFICATION FairSpec
INVARIANTS RetriedOnce JournalledOnce
PROPERTIES OneRoomPerKey RoomsEnd
CHECK_DEADLOCK FALSE
