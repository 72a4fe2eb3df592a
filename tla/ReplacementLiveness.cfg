\* No drive is lost and the process does not crash: a rebuild ends.
CONSTANTS
    f1 = f1
    f2 = f2
    d1 = d1
    d2 = d2
    d3 = d3
    NoRow = NoRow
    NoFile = NoFile
    Files <- TwoFiles
    Paths <- ThreePaths
    Home <- HomePaths
    RowIds <- FiveRows
    MaxVersion = 2
    MaxLosses = 0
    MaxCrashes = 0
    Allowed = {}
SPECIFICATION FairSpec
PROPERTY
    RebuildEnds
CHECK_DEADLOCK FALSE
