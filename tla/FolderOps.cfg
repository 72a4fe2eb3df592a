\* A file in two folders, one of them within the other, and two threads.
CONSTANTS
    f1 = f1
    d1 = d1
    d2 = d2
    t1 = t1
    t2 = t2
    Files <- OneFile
    Folders <- TwoFolders
    Under <- Both
    Threads <- TwoThreads
    NoFile = NoFile
    Gone = Gone
    NoFolder = NoFolder
    Touched <- OneFile
    PerPage = 1
    Allowed = {}
SPECIFICATION Spec
INVARIANTS
    FlagHasThread
    DirectWasAsked
    ExplicitStaysTracked
    UnmirroredIsQueued
PROPERTIES
    ExclusionSpec
SYMMETRY AllAlike
