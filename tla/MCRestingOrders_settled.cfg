CONSTANTS
    o1 = o1
    o2 = o2
    Orders = {o1}
    TermsOf <- OneBuy
    None = None
    Sweeps = {s1, s2}
    Clients = {c1, c2}
    Marks = {1, 2, 3}
    Shares = 0
    Shorts = {0, 1}
    LongOnly = FALSE
    Life = 1
    Stale = 2
SPECIFICATION FairSpec
PROPERTIES ClaimsResolve ElapsedOrdersLeave
CHECK_DEADLOCK FALSE
