CONSTANTS
    o1 = o1
    o2 = o2
    Orders = {o1, o2}
    TermsOf <- TwoSells
    None = None
    Sweeps = {s1, s2}
    Clients = {c1}
    Marks = {1, 3}
    Shares = 2
    Shorts = {0}
    LongOnly = FALSE
    Life = 1
    Stale = 1
SPECIFICATION Spec
INVARIANTS AtMostOneFill LedgerAgrees LimitHonoured OneTriggerPush
PROPERTY NeverBackInTheBook
SYMMETRY SweepsAlike
CHECK_DEADLOCK FALSE
