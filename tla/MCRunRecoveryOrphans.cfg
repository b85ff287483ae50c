SPECIFICATION FairSpec
CONSTANTS
    api1 = api1
    none = none
    NoRun = none
    Run = {api1}
    Contains <- Distinct
    MaxRetries = 3
    MaxSpawns = 3
    MaxErrors = 1
    MaxCrashes = 1
INVARIANTS  RespawnsForCause
PROPERTY OrphanIsHandled
CHECK_DEADLOCK FALSE
