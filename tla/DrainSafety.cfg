\* Two processes, two pairs, one kill, passes shorter than the staleness window.
CONSTANTS
    a = a
    b = b
    pA = pA
    pB = pB
    p1 = p1
    p2 = p2
    NoProc = NoProc
    NoRow = NoRow
    Runners <- TwoRunners
    Procs <- TwoProcs
    ProcOf <- TwoProcOf
    Timed = {b}
    Pairs <- TwoPairs
    Rows <- ThreeRows
    PairOf <- TwoPairsOf
    UserRows = {}
    PageSize = 2
    StaleAfter = 3
    MaxPass = 2
    MaxKills = 1
SPECIFICATION Spec
INVARIANTS
    SingleDrainer
    LiveTransferInProgress
    DrainerHoldsLock
PROPERTY QueueSpec
