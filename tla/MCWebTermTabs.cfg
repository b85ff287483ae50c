SPECIFICATION FairSpec
CONSTANTS
    v1 = v1
    v2 = v2
    r1 = r1
    r2 = r2
    Viewer = {v1, v2}
    Responder = {r1, r2}
    Owns <- BothAndOne
    MaxViewers = 1
    MaxFaults = 1
INVARIANTS CountExact OpenIsServed
PROPERTIES EndedIsTold ImplementsPool
CHECK_DEADLOCK FALSE
