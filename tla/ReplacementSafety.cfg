\* One spare drive, one drive lost, one crash; users edit a healthy pair only.
CONSTANTS
    f1 = f1
    f2 = f2
    d1 = d1
    d2 = d2
    d3 = d3
    NoRow = NoRow
    NoFile = NoFile
    Files <- TwoFiles
    Paths <- ThreePaths
    Home <- HomePaths
    RowIds <- ThreeRows
    MaxVersion = 2
    MaxLosses = 1
    MaxCrashes = 1
    Allowed = {}
SPECIFICATION Spec
INVARIANTS
    NoVersionLost
    MirroredIsCurrent
PROPERTIES
    RebuildPaid
    LifecycleSpec
CHECK_DEADLOCK FALSE
