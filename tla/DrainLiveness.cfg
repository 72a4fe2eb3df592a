\* Liveness over one pair and pages of two, with one row waiting for a user and one kill.
CONSTANTS
    a = a
    b = b
    pA = pA
    pB = pB
    p1 = p1
    p2 = p2
    NoProc = NoProc
    NoRow = NoRow
    Runners <- TwoRunners
    Procs <- TwoProcs
    ProcOf <- TwoProcOf
    Timed = {}
    Pairs <- OnePair
    Rows <- ThreeRows
    PairOf <- OnePairOf
    UserRows = {1}
    PageSize = 2
    StaleAfter = 2
    MaxPass = 1
    MaxKills = 1
SPECIFICATION FairSpec
PROPERTIES
    LockRecovered
    RowsTakenUp
    DrainEndsUnlessQuiescing
