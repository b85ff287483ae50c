SPECIFICATION ReaperFairSpec
CONSTANTS
    MaxSpawns = 2
    MaxTurns = 2
    MaxFailures = 1
PROPERTIES ReapsIdle NothingStays
CHECK_DEADLOCK FALSE
