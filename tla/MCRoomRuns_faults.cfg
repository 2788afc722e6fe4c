CONSTANTS
    Runs = {r1}
    Keys = {k1}
    None = None
    Prices = {1, 2}
    Faults = {"refund", "write", "journal"}
    Crashes = TRUE
    Backtests = TRUE
    Overruns = TRUE
SPECIFICATION Spec
INVARIANTS RefundsAreTold
PROPERTIES ChargeSpec VerdictStays
CHECK_DEADLOCK FALSE
