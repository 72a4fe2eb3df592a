\* A schedule and a backup task, three edits by requests or commands, one kill.
CONSTANTS
    s = s
    b = b
    p = p
    q = q
    r = r
    NoRow = NoRow
    Deleted = Deleted
    NoPlan = NoPlan
    NoThread = NoThread
    NoJob = NoJob
    Schedules = {s}
    Backups = {b}
    Threads = {1, 2, 3}
    Plans = {p, q, r}
    Negative = {}
    Overlong = {r}
    Default = p
    MaxEdits = 3
    MaxKills = 1
    Allowed = {}
SPECIFICATION FairSpec
INVARIANTS
    ThreadsFollowRows
    NextRunIsPlanned
PROPERTY
    JobsFollowRows
CHECK_DEADLOCK FALSE
