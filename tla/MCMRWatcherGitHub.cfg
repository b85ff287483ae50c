SPECIFICATION FairSpec
CONSTANTS
    s1 = s1
    p1 = p1
    none = none
    NoSession = none
    Forwardable <- EveryNote
    Session = {s1}
    Pass = {p1}
    AutoMerge = TRUE
    AutoReview = TRUE
    MonitorPostMerge = TRUE
    GitLabRepo = FALSE
    ProcessWorker = TRUE
    Trivial = {}
    RepairLimit = 2
    NotFoundLimit = 3
    PostMergeLimit = 0
    PageSize = 3
    MaxPush = 2
    MaxNote = 0
    MaxFlips = 2
    MaxErrors = 0
    MaxCrashes = 1
    MaxTracks = 1
INVARIANTS SaidOnce 
PROPERTY GreenGoesOn
CHECK_DEADLOCK FALSE
