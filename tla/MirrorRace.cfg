\* A change is found while the file is being mirrored.
CONSTANTS
    f1 = f1
    f2 = f2
    d1 = d1
    d2 = d2
    d3 = d3
    NoRow = NoRow
    NoFile = NoFile
    Files <- OneFile
    Paths <- ThreePaths
    Home <- HomePaths
    RowIds <- ThreeRows
    MaxVersion = 3
    MaxLosses = 0
    MaxCrashes = 0
    Allowed = {"scan during copy"}
SPECIFICATION Spec
INVARIANT
    MirroredIsCurrent
CHECK_DEADLOCK FALSE
