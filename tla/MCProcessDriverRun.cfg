SPECIFICATION FairDriverSpec
CONSTANTS
    Process <- SmallProcess
    Type = {"merged", "failed"}
    AutoApprove = TRUE
    MaxDeliver = 2
    MaxSend = 3
    MaxCrashes = 1
    MaxSlips = 1
    MaxEdits = 1
INVARIANTS  DriverInv ParkedForCause
 
CHECK_DEADLOCK FALSE
