\* Two requests at a time, one switch of a drive, one kill.
CONSTANTS
    f1 = f1
    f2 = f2
    d = d
    p1 = p1
    p2 = p2
    x1 = x1
    x2 = x2
    y1 = y1
    y2 = y2
    NoRow = NoRow
    NoPath = NoPath
    NoPair = NoPair
    NoOwner = NoOwner
    Nothing = Nothing
    Dir = Dir
    User = User
    Runners = {1, 2}
    Files <- TwoFiles
    Folders <- OneFolder
    Pairs <- TwoPairs
    Drives = {x1, x2, y1, y2}
    PairOf <- PairOfThree
    Within <- InFolder
    Name <- Names
    VPaths <- ThreePaths
    FirstPairs <- OnePair
    MaxRequests = 3
    MaxSwitches = 1
    MaxKills = 1
    MaxEdits = 1
    MaxUserFiles = 1
    Allowed = {}
SPECIFICATION FairSpec
INVARIANTS
    LinksApart
    ListedResolves
PROPERTIES
    UserFilesStay
    LinksRestored
CHECK_DEADLOCK FALSE
