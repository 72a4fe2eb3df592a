\* Two files on one pair and a third on another, one file per page, one kill.
CONSTANTS
    Files <- ThreeFiles
    Pairs <- TwoPairs
    PairOf <- Home
    FirstOrder <- ById
    RunIds <- TwoRuns
    PerPage = 1
    Changing <- OneFile
    MaxVersion = 2
    MaxKills = 1
    Allowed = {}
SPECIFICATION FairSpec
INVARIANTS
    OneActiveRun
    NoVersionLost
    BehindIsQueued
PROPERTIES
    EndStands
    RunsEnd
    Coverage
CHECK_DEADLOCK FALSE
