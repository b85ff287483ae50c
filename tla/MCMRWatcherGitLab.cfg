SPECIFICATION FairSpec
CONSTANTS
    s1 = s1
    p1 = p1
    none = none
    NoSession = none
    Forwardable <- EveryNote
    Session = {s1}
    Pass = {p1}
    AutoMerge = TRUE
    AutoReview = TRUE
    MonitorPostMerge = TRUE
    GitLabRepo = TRUE
    ProcessWorker = TRUE
    Trivial = {s1}
    RepairLimit = 1
    NotFoundLimit = 2
    PostMergeLimit = 1
    PageSize = 3
    MaxPush = 2
    MaxNote = 1
    MaxFlips = 1
    MaxErrors = 1
    MaxCrashes = 0
    MaxTracks = 1
INVARIANTS BoundedRepair SaidOnce
PROPERTIES LeavesInOrder 
CHECK_DEADLOCK FALSE
