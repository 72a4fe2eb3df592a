\* Two destinations; one thing goes wrong or is edited at some point of the runs.
CONSTANTS
    d1 = d1
    d2 = d2
    backer = backer
    checker = checker
    NoDir = NoDir
    Missing = Missing
    Corrupt = Corrupt
    Unused = Unused
    Deleted = Deleted
    Dirs <- TwoDirs
    Backers <- OneBacker
    Checkers <- OneChecker
    MaxId = 2
    DirsOf <- OwnDirs
    MaxVersion = 1
    MaxEvents = 1
    Allowed = {}
SPECIFICATION FairSpec
INVARIANT
    RowsTellTruth
PROPERTIES
    HealthyStaysHealthy
    RepairsEnd
CHECK_DEADLOCK FALSE
