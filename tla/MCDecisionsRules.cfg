SPECIFICATION DecisionSpec
CONSTANTS
    Cases <- MCCases
    Tick = 2
    MinutesPerHour = 3
    HoursPerDay = 2
    DaysPerWeek = 2
    MaxBuf = 4
    MaxPerTick = 3
    MaxMsg = 2
    MarkLen = 1
    PageSize = 2
    User = {"u1", "u2"}
    FilePath = {"f"}
    Key = {"k1", "k2", "k3"}
    Repo = {"r1", "r2"}
    Near = 1
    Few = 1
    Apart = 1
    Attempts = 2
    Spread = 1
    Ports = 3
    OldestNode <- MCOldest
INVARIANTS
    
    
    
    
    
    
    SupervisionSound
