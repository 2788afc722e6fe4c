CONSTANTS
    p = p
    q = q
    desk = desk
    f1 = f1
    f2 = f2
    None = None
    Desks = {desk}
    Fields = {f1, f2}
    Cadence <- MCCadence
    Ending = {f1}
    Runs <- MCRuns
    Played <- MCPlayed
    Returns <- MCReturns
    Opening = 1
    Stipend = 1
    DuelPoints = 1
    Debit = 1
    MaxMoves = 2
    MaxTrouble = 1
SPECIFICATION FairSpec
INVARIANTS TypeOK ResultsArePaid ClampHolds
PROPERTIES EverythingEnds
CHECK_DEADLOCK FALSE
