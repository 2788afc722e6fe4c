CONSTANTS
    Calls = {c1, c2}
    None = None
    Start = 12
    Prices = {2, 4}
    Requests <- MCRequests
    Toll = 1
    BorrowFee = 1
    MaxRows = 3
    Days = 1
    Onward = FALSE
SPECIFICATION Spec
INVARIANTS TypeOK LotsAgree CashIsExplained OldestSharesFirst
PROPERTY PositionsCloseWhole
SYMMETRY CallsAlike
CHECK_DEADLOCK FALSE
