\* Two commits, two restores, two kills.
CONSTANTS
    MaxCommits = 2
    MaxRestores = 2
    MaxBackups = 2
    MaxKills = 2
    NoLog = NoLog
    Nothing = Nothing
    Torn = Torn
    RestoreAllowed = {}
SPECIFICATION RestoreFairSpec
INVARIANTS
    FilesAgree
    CommitsKept
PROPERTIES
    TornIsNotApplied
    RestoreEnds
CHECK_DEADLOCK FALSE
